---------------------------- MODULE Spec2Model ----------------------------
(***************************************************************************)
(* A model of the adblocker DNS filter's decision engine: the rule index   *)
(* (reverse-label trie plus regex list), its reload with the swap of the   *)
(* index, and the evaluation of one query (user, schedule-gated groups,    *)
(* modifiers, priority slots).                                             *)
(*                                                                         *)
(* Strings are sequences of atoms.  A domain name is written one atom per  *)
(* character, so "aa.c" is <<"a","a",".","c">>; a modifier value is        *)
(* written one atom per lexeme, so "~alice|10.0.0.5" is                    *)
(* <<"~","alice","|","10.0.0.5">>.                                         *)
(***************************************************************************)
EXTENDS Integers, Sequences, FiniteSets, TLC

VARIABLES
    cfg,            \* config.Config snapshot held by the engine
    now,            \* the local clock: [weekday, hour, minute]
    heap,           \* the parser.Rule objects, by address (1..Len(heap))
    trie,           \* Engine.trie: the published DomainTrie
    regexRules,     \* Engine.regexRules: the published regex list
    fileRuleCache,  \* Engine.fileRuleCache: path -> rule addresses
    trieMu,         \* Engine.trieMu: [readers, writer]
    mu,             \* ReloadRules' build-time mutex: 0 or the holding loader
    reload,         \* the ReloadRules activation
    loaders,        \* the loader goroutines of the running ReloadRules
    query,          \* the arguments of Resolve: [qName, qType, ip, mac]
    resolver,       \* the Resolve activation
    result,         \* the last ResolveResult returned
    preSnap,        \* history: heap and index when the running reload began
    clock,          \* time.Now(), in seconds
    UserGroupCache, \* Server.UserGroupCache.items: key -> [Msg, ExpiresAt]
    UpstreamCache,  \* Server.UpstreamCache.items: key -> [Msg, ExpiresAt]
    msgs,           \* the dns.Msg objects, by address
    held,           \* the addresses of the messages a caller of a cache holds
    written         \* the last answer of handleRequest

serverVars == <<clock, UserGroupCache, UpstreamCache, msgs, held, written>>

vars == <<cfg, now, heap, trie, regexRules, fileRuleCache, trieMu, mu,
          reload, loaders, query, resolver, result, preSnap, clock,
          UserGroupCache, UpstreamCache, msgs, held, written>>

\* a nil pointer to a record (a user); a nil rule address is 0
Nil == [nil |-> TRUE]

----------------------------------------------------------------------------
(* strings *)

HasPrefix(s, t) ==
    Len(t) <= Len(s) /\ SubSeq(s, 1, Len(t)) = t

HasSuffix(s, t) ==
    Len(t) <= Len(s) /\ SubSeq(s, Len(s) - Len(t) + 1, Len(s)) = t

TrimPrefix(s, t) ==
    IF HasPrefix(s, t) THEN SubSeq(s, Len(t) + 1, Len(s)) ELSE s

TrimSuffix(s, t) ==
    IF HasSuffix(s, t) THEN SubSeq(s, 1, Len(s) - Len(t)) ELSE s

RECURSIVE TrimLeft(_)
TrimLeft(s) ==
    IF Len(s) > 0 /\ s[1] = " " THEN TrimLeft(Tail(s)) ELSE s

RECURSIVE TrimRight(_)
TrimRight(s) ==
    IF Len(s) > 0 /\ s[Len(s)] = " "
    THEN TrimRight(SubSeq(s, 1, Len(s) - 1)) ELSE s

TrimSpace(s) == TrimRight(TrimLeft(s))

\* strings.Split(s, sep) for a one-atom separator: never the empty list
RECURSIVE Split(_, _)
Split(s, sep) ==
    IF \A i \in 1..Len(s) : s[i] # sep
    THEN <<s>>
    ELSE LET i == CHOOSE i \in 1..Len(s) :
                      s[i] = sep /\ \A j \in 1..(i - 1) : s[j] # sep
         IN  <<SubSeq(s, 1, i - 1)>> \o Split(SubSeq(s, i + 1, Len(s)), sep)

RECURSIVE Flatten(_)
Flatten(ss) ==
    IF ss = <<>> THEN <<>> ELSE Head(ss) \o Flatten(Tail(ss))

----------------------------------------------------------------------------
(* rules *)

RuleTypeExact == "Exact"
RuleTypeDistinguish == "Distinguish"
RuleTypeRegex == "Regex"

NoModifiers ==
    [Client |-> <<>>, DenyAllow |-> <<>>, DNSType |-> <<>>,
     DNSRewrite |-> <<>>, Important |-> FALSE, BadFilter |-> FALSE]

\* a parsed rule, before ReloadRules stamps its group
Rule(text, pattern, type, isWhitelist, modifiers) ==
    [Text |-> text, Pattern |-> pattern, Type |-> type,
     IsWhitelist |-> isWhitelist, Modifiers |-> modifiers, GroupID |-> 0]

----------------------------------------------------------------------------
(* engine/trie.go *)

\* NewDomainTrie: the root node alone.  A node is named by the labels on
\* the way to it from the root; ver is the allocation the trie came from
NewDomainTrie(ver) == [ver |-> ver, nodes |-> (<<>> :> <<>>)]

\* the node reached from the root by the last k labels of parts, last first
NodePath(parts, k) == [j \in 1..k |-> parts[Len(parts) - j + 1]]

InsertWrongOrder(t, rid, pattern) ==
    LET parts == Split(pattern, ".")
        n     == Len(parts)
        Path(k) == SubSeq(parts, 1, k)
        made  == {Path(k) : k \in 1..n}
        Old(p) == IF p \in DOMAIN t.nodes THEN t.nodes[p] ELSE <<>>
    IN  [t EXCEPT !.nodes =
            [p \in (DOMAIN t.nodes) \cup made |->
                IF p = Path(n) THEN Old(p) \o <<rid>> ELSE Old(p)]]

Insert(t, rid, pattern) ==
    LET parts == Split(pattern, ".")
        n     == Len(parts)
        made  == {NodePath(parts, k) : k \in 1..n}
        Old(p) == IF p \in DOMAIN t.nodes THEN t.nodes[p] ELSE <<>>
    IN  [t EXCEPT !.nodes =
            [p \in (DOMAIN t.nodes) \cup made |->
                IF p = NodePath(parts, n) THEN Old(p) \o <<rid>> ELSE Old(p)]]

RECURSIVE Walk(_, _, _)
Walk(t, parts, k) ==
    IF k > Len(parts) \/ NodePath(parts, k) \notin DOMAIN t.nodes
    THEN <<>>
    ELSE t.nodes[NodePath(parts, k)] \o Walk(t, parts, k + 1)

SearchTraceNoTrim(t, domain) ==
    Walk(t, Split(domain, "."), 1)

SearchTrace(t, domain) ==
    Walk(t, Split(TrimSuffix(domain, <<".">>), "."), 1)

----------------------------------------------------------------------------
(* regexp, for the patterns the rule files hold: a pattern is a sequence   *)
(* of "^", "$", "(^|\\.)", ".*", ".", "\\." and literal atoms; "[" stands  *)
(* for a source regexp.Compile rejects                                     *)

Compiles(re) == \A k \in 1..Len(re) : re[k] # "["

RECURSIVE MatchAt(_, _, _, _)
MatchAt(re, k, s, i) ==
    IF k > Len(re) THEN TRUE
    ELSE CASE re[k] = "^"  -> i = 1 /\ MatchAt(re, k + 1, s, i)
           [] re[k] = "$"  -> i = Len(s) + 1 /\ MatchAt(re, k + 1, s, i)
           [] re[k] = "(^|\\.)" ->
                  \/ i = 1 /\ MatchAt(re, k + 1, s, i)
                  \/ i <= Len(s) /\ s[i] = "." /\ MatchAt(re, k + 1, s, i + 1)
           [] re[k] = ".*" ->
                  \E j \in i..(Len(s) + 1) : MatchAt(re, k + 1, s, j)
           [] re[k] = "."  -> i <= Len(s) /\ MatchAt(re, k + 1, s, i + 1)
           [] re[k] = "\\." ->
                  i <= Len(s) /\ s[i] = "." /\ MatchAt(re, k + 1, s, i + 1)
           [] OTHER ->
                  i <= Len(s) /\ s[i] = re[k] /\ MatchAt(re, k + 1, s, i + 1)

MatchString(re, s) == \E i \in 1..(Len(s) + 1) : MatchAt(re, 1, s, i)

----------------------------------------------------------------------------
(* net/netip, over the addresses and prefixes the configurations use *)

NoAddr == ""

\* netip.ParseAddr: the address a text denotes (two spellings of one IPv6
\* address denote the same address), or NoAddr when it is no address
ParseAddr(s) ==
    IF Len(s) # 1 THEN NoAddr
    ELSE CASE s[1] = "10.0.0.5"    -> "10.0.0.5"
           [] s[1] = "10.0.1.7"    -> "10.0.1.7"
           [] s[1] = "192.168.1.5" -> "192.168.1.5"
           [] s[1] = "2001:db8::1" -> "2001:db8::1"
           [] s[1] = "2001:DB8::1" -> "2001:db8::1"
           [] s[1] = "127.0.0.1"   -> "127.0.0.1"
           [] s[1] = "0.0.0.0"     -> "0.0.0.0"
           [] s[1] = "::1"         -> "::1"
           [] s[1] = "::"          -> "::"
           [] s[1] = "0:0:0:0:0:0:0:0" -> "::"
           [] OTHER -> NoAddr

\* netip.Addr.String: the canonical text
AddrString(ip) == <<ip>>

\* netip.Addr.Is4, Is6, IsLoopback, IsUnspecified
Is6(ip) == ip \in {"2001:db8::1", "::1", "::"}

Is4(ip) == ip # NoAddr /\ ~Is6(ip)

IsLoopbackAny(ip) == ip # NoAddr

IsLoopback(ip) == ip \in {"127.0.0.1", "::1"}

IsUnspecified(ip) == ip \in {"0.0.0.0", "::"}

\* netip.ParsePrefix: whether the text is a prefix, and its addresses
ParsePrefix(s) ==
    IF Len(s) # 1 THEN [ok |-> FALSE, addrs |-> {}]
    ELSE CASE s[1] = "10.0.0.0/24" ->
                  [ok |-> TRUE, addrs |-> {"10.0.0.5"}]
           [] s[1] = "10.0.0.0/16" ->
                  [ok |-> TRUE, addrs |-> {"10.0.0.5", "10.0.1.7"}]
           [] OTHER -> [ok |-> FALSE, addrs |-> {}]

\* netip.Prefix.Contains
Contains(prefix, ip) == ip \in prefix.addrs

----------------------------------------------------------------------------
(* engine/schedule.go *)

Sunday == 0
Saturday == 6
MinutesPerHour == 60

ToLower(s) ==
    CASE s = "Mon" -> "mon" [] s = "MONDAY" -> "monday"
      [] s = "Sun" -> "sun" [] s = "Tue" -> "tue"
      [] OTHER -> s

\* parseWeekday: the weekday, or -1 for an unknown day
parseWeekday(s) ==
    LET l == ToLower(s)
    IN  CASE l \in {"sun", "sunday"}    -> 0
          [] l \in {"mon", "monday"}    -> 1
          [] l \in {"tue", "tuesday"}   -> 2
          [] l \in {"wed", "wednesday"} -> 3
          [] l \in {"thu", "thursday"}  -> 4
          [] l \in {"fri", "friday"}    -> 5
          [] l \in {"sat", "saturday"}  -> 6
          [] OTHER -> -1

\* strconv.Atoi on the two-digit fields the configurations use; -1: error
Atoi(s) ==
    IF Len(s) # 1 THEN -1
    ELSE CASE s[1] = "00" -> 0 [] s[1] = "01" -> 1 [] s[1] = "02" -> 2
           [] s[1] = "03" -> 3 [] s[1] = "04" -> 4 [] s[1] = "05" -> 5
           [] OTHER -> -1

\* parseMinutes: minutes from midnight; -1: error
parseMinutes(hhmm) ==
    LET parts == Split(hhmm, ":")
    IN  IF Len(parts) # 2 THEN -1
        ELSE IF Atoi(parts[1]) = -1 \/ Atoi(parts[2]) = -1 THEN -1
        ELSE Atoi(parts[1]) * MinutesPerHour + Atoi(parts[2])

parseTimeRange(s) ==
    LET parts == Split(s, "-")
    IN  IF Len(parts) # 2 THEN [Start |-> -1, End |-> -1]
        ELSE [Start |-> parseMinutes(parts[1]), End |-> parseMinutes(parts[2])]

RECURSIVE ParseRanges(_)
ParseRanges(ranges) ==
    IF ranges = <<>> THEN <<>>
    ELSE <<parseTimeRange(Head(ranges))>> \o ParseRanges(Tail(ranges))

\* the ranges the named days of one item add to weekday d: once for each
\* day string that names d
RECURSIVE DaysRangesOn(_, _, _)
DaysRangesOn(days, currentRanges, d) ==
    IF days = <<>> THEN <<>>
    ELSE (IF parseWeekday(Head(days)) = d THEN currentRanges ELSE <<>>)
         \o DaysRangesOn(Tail(days), currentRanges, d)

\* the ranges one schedule item adds to weekday d
ItemRangesOn(item, d) ==
    IF Len(item.Days) = 0
    THEN ParseRanges(item.Ranges)
    ELSE DaysRangesOn(item.Days, ParseRanges(item.Ranges), d)

RECURSIVE WeekMapOn(_, _)
WeekMapOn(items, d) ==
    IF items = <<>> THEN <<>>
    ELSE ItemRangesOn(Head(items), d) \o WeekMapOn(Tail(items), d)

\* the greatest element of a non-empty set of positions
Last(S) == CHOOSE i \in S : \A j \in S : j <= i

\* NewScheduleMatcher: name -> weekday -> ranges; a later schedule of the
\* same name replaces an earlier one
NewScheduleMatcher(c) ==
    [name \in {c.Schedules[i].Name : i \in 1..Len(c.Schedules)} |->
        LET sch == c.Schedules[Last({i \in 1..Len(c.Schedules) :
                                        c.Schedules[i].Name = name})]
        IN  [d \in Sunday..Saturday |-> WeekMapOn(sch.Items, d)]]

InRangeExclusiveEnd(m, r) == m >= r.Start /\ m < r.End

InRange(m, r) == m >= r.Start /\ m <= r.End

IsActive(sm, scheduleName, t) ==
    IF scheduleName = "" THEN FALSE
    ELSE IF scheduleName \notin DOMAIN sm THEN FALSE
    ELSE LET ranges == sm[scheduleName][t.weekday]
             currentMins == t.hour * MinutesPerHour + t.minute
         IN  IF Len(ranges) = 0 THEN FALSE
             ELSE \E i \in 1..Len(ranges) : InRange(currentMins, ranges[i])

----------------------------------------------------------------------------
(* engine/user.go *)

InSeq(x, s) == \E i \in 1..Len(s) : s[i] = x

SeqToSet(s) == {s[i] : i \in 1..Len(s)}

\* the IPs entries of u that are single addresses, as addresses
AddrsOfUser(u) ==
    {ParseAddr(<<u.IPs[i]>>) :
        i \in {k \in 1..Len(u.IPs) : ~ParsePrefix(<<u.IPs[k]>>).ok}}

RECURSIVE CidrsOfUser(_, _)
CidrsOfUser(u, ips) ==
    IF ips = <<>> THEN <<>>
    ELSE (IF ParsePrefix(<<Head(ips)>>).ok
          THEN <<[prefix |-> ParsePrefix(<<Head(ips)>>), user |-> u]>>
          ELSE <<>>) \o CidrsOfUser(u, Tail(ips))

RECURSIVE CidrsOf(_)
CidrsOf(users) ==
    IF users = <<>> THEN <<>>
    ELSE CidrsOfUser(Head(users), Head(users).IPs) \o CidrsOf(Tail(users))

\* NewUserMatcher: the maps keep the last user written for a key
NewUserMatcher(c) ==
    [byIP  |-> [ip \in UNION {AddrsOfUser(c.Users[i]) : i \in 1..Len(c.Users)}
                   |-> c.Users[Last({i \in 1..Len(c.Users) :
                                        ip \in AddrsOfUser(c.Users[i])})]],
     byMAC |-> [m \in UNION {SeqToSet(c.Users[i].MACs) : i \in 1..Len(c.Users)}
                   |-> c.Users[Last({i \in 1..Len(c.Users) :
                                        InSeq(m, c.Users[i].MACs)})]],
     cidrs |-> CidrsOf(c.Users)]

MatchIPBeforeMAC(um, ip, mac) ==
    IF ip \in DOMAIN um.byIP THEN um.byIP[ip]
    ELSE IF mac # "" /\ mac \in DOMAIN um.byMAC THEN um.byMAC[mac]
    ELSE Nil

Match(um, ip, mac) ==
    IF mac # "" /\ mac \in DOMAIN um.byMAC THEN um.byMAC[mac]
    ELSE IF ip \in DOMAIN um.byIP THEN um.byIP[ip]
    ELSE IF \E i \in 1..Len(um.cidrs) : Contains(um.cidrs[i].prefix, ip)
    THEN um.cidrs[CHOOSE i \in 1..Len(um.cidrs) :
                      /\ Contains(um.cidrs[i].prefix, ip)
                      /\ \A j \in 1..(i - 1) :
                             ~Contains(um.cidrs[j].prefix, ip)].user
    ELSE Nil

----------------------------------------------------------------------------
(* engine/engine.go: NewEngine, checkModifiers, getActiveGroupIDs, Resolve *)

\* NewEngine's group-id table: 1-based position of the rule group in the
\* configuration (the last one of a name); 0 for a name not configured
GroupID(c, name) ==
    LET S == {i \in 1..Len(c.RuleGroups) : c.RuleGroups[i].Name = name}
    IN  IF S = {} THEN 0 ELSE Last(S)

\* the values of a modifier, each split on "|", in one list
RECURSIVE Targets(_)
Targets(raws) ==
    IF raws = <<>> THEN <<>>
    ELSE Split(Head(raws), "|") \o Targets(Tail(raws))

\* whether one $client value (with or without "~") names the client
ClientTokenMatches(p, user, clientIP) ==
    LET target == TrimPrefix(TrimSpace(p), <<"~">>)
    IN  IF user # Nil /\ target = <<user.Name>> THEN TRUE
        ELSE IF ParseAddr(target) # NoAddr THEN ParseAddr(target) = clientIP
        ELSE IF ParsePrefix(target).ok
        THEN Contains(ParsePrefix(target), clientIP)
        ELSE target = AddrString(clientIP)

ExclusionModeAnyToken(targets) ==
    \E i \in 1..Len(targets) : HasPrefix(TrimSpace(targets[i]), <<"~">>)

\* the mode of a $client or $dnstype list: that of its first value
ExclusionMode(targets) == HasPrefix(TrimSpace(targets[1]), <<"~">>)

ClientAllows(r, user, clientIP) ==
    IF Len(r.Modifiers.Client) = 0 THEN TRUE
    ELSE LET targets == Targets(r.Modifiers.Client)
             matched == \E i \in 1..Len(targets) :
                            ClientTokenMatches(targets[i], user, clientIP)
         IN  IF Len(targets) = 0 THEN FALSE
             ELSE IF ExclusionMode(targets) THEN ~matched ELSE matched

\* strings.EqualFold on the type names
Fold(x) ==
    CASE x = "a" -> "A" [] x = "aaaa" -> "AAAA" [] x = "cname" -> "CNAME"
      [] OTHER -> x

EqualFold(s, t) ==
    Len(s) = Len(t) /\ \A i \in 1..Len(s) : Fold(s[i]) = Fold(t[i])

\* dns.TypeToString: a query type is written by its name
TypeToString(qType) == <<qType>>

DNSTypeAllows(r, qType) ==
    IF Len(r.Modifiers.DNSType) = 0 THEN TRUE
    ELSE LET targets == Targets(r.Modifiers.DNSType)
             matched == \E i \in 1..Len(targets) :
                            EqualFold(TrimPrefix(TrimSpace(targets[i]), <<"~">>),
                                      TypeToString(qType))
         IN  IF Len(targets) = 0 THEN FALSE
             ELSE IF ExclusionMode(targets) THEN ~matched ELSE matched

DenyAllowExcludesSubdomains(r, qName) ==
    LET domain == TrimSuffix(qName, <<".">>)
        das    == Targets(r.Modifiers.DenyAllow)
    IN  \E i \in 1..Len(das) :
            \/ domain = TrimSpace(das[i])
            \/ HasSuffix(domain, <<".">> \o TrimSpace(das[i]))

\* isExcluded: the query name is one of the $denyallow domains
DenyAllowExcludes(r, qName) ==
    LET domain == TrimSuffix(qName, <<".">>)
        das    == Targets(r.Modifiers.DenyAllow)
    IN  \E i \in 1..Len(das) : domain = TrimSpace(das[i])

checkModifiers(r, user, qType, clientIP, qName) ==
    /\ ~r.Modifiers.BadFilter
    /\ ClientAllows(r, user, clientIP)
    /\ DNSTypeAllows(r, qType)
    /\ ~(Len(r.Modifiers.DenyAllow) > 0 /\ DenyAllowExcludes(r, qName))

PolicyActiveIgnoringSchedule(c, policy, t) == TRUE

\* isActive of one policy: not inside its schedule
PolicyActive(c, policy, t) ==
    ~IsActive(NewScheduleMatcher(c), policy.Schedule, t)

RECURSIVE ActiveIDs(_, _, _, _)
ActiveIDs(c, policies, t, activeIDs) ==
    IF policies = <<>> THEN activeIDs
    ELSE LET policy == Head(policies)
             gid    == GroupID(c, policy.RuleGroup)
         IN  ActiveIDs(c, Tail(policies), t,
                 IF PolicyActive(c, policy, t) /\ gid # 0
                    /\ ~InSeq(gid, activeIDs)
                 THEN Append(activeIDs, gid) ELSE activeIDs)

getActiveGroupIDs(c, userGroupName, t) ==
    LET S == {i \in 1..Len(c.UserGroups) : c.UserGroups[i].Name = userGroupName}
    IN  IF S = {} THEN <<>>
        ELSE ActiveIDs(c, c.UserGroups[CHOOSE i \in S : \A j \in S : i <= j].Policies,
                       t, <<>>)

\* Resolve, step 1 and 2: the user and the name of its user group
UserGroupName(c, user) ==
    IF user # Nil THEN user.UserGroup ELSE c.Defaults.UserGroup

\* Resolve, step 4: the regex rules of the list that match the raw name
RECURSIVE RegexMatches(_, _, _)
RegexMatches(h, rules, qName) ==
    IF rules = <<>> THEN <<>>
    ELSE (IF MatchString(h[Head(rules)].Pattern, qName)
          THEN <<Head(rules)>> ELSE <<>>) \o RegexMatches(h, Tail(rules), qName)

ExactAllowsSubdomains(r, qName) == TRUE

\* the Exact check of the loop: an Exact rule needs the name itself
ExactAllows(r, qName) ==
    r.Type = RuleTypeExact => r.Pattern = TrimSuffix(qName, <<".">>)

\* whether the loop over allMatches keeps rule object r for group gid
Applies(r, gid, user, q) ==
    /\ r.GroupID = gid
    /\ ExactAllows(r, q.qName)
    /\ checkModifiers(r, user, q.qType, q.ip, q.qName)

NoSlots ==
    [blockRule |-> 0, whitelistRule |-> 0,
     importantBlockRule |-> 0, importantWhitelistRule |-> 0]

SlotOf(r) ==
    IF r.IsWhitelist
    THEN IF r.Modifiers.Important THEN "importantWhitelistRule"
         ELSE "whitelistRule"
    ELSE IF r.Modifiers.Important THEN "importantBlockRule" ELSE "blockRule"

\* the four slots after the loop over allMatches for group gid: each
\* assignment replaces the slot's rule
GroupSlots(h, allMatches, gid, user, q) ==
    LET after[k \in 0..Len(allMatches)] ==
            IF k = 0 THEN NoSlots
            ELSE IF Applies(h[allMatches[k]], gid, user, q)
            THEN [after[k - 1] EXCEPT ![SlotOf(h[allMatches[k]])] = allMatches[k]]
            ELSE after[k - 1]
    IN  after[Len(allMatches)]

Decisive(slots) == slots # NoSlots

Returned(blocked, reason, rule, user, rewrite) ==
    [called |-> TRUE, Blocked |-> blocked, Reason |-> reason, Rule |-> rule,
     User |-> user, DNSRewrite |-> rewrite]

GroupResultBlockFirst(h, slots, user) ==
    IF slots.blockRule # 0
    THEN Returned(TRUE, "Blocked", slots.blockRule, user, <<>>)
    ELSE IF slots.importantBlockRule # 0
    THEN Returned(TRUE, "Important Blocked", slots.importantBlockRule, user, <<>>)
    ELSE IF slots.importantWhitelistRule # 0
    THEN Returned(FALSE, "Important Whitelisted", slots.importantWhitelistRule,
                  user, <<>>)
    ELSE Returned(FALSE, "Whitelisted", slots.whitelistRule, user, <<>>)

GroupResultBlockBeatsWhitelist(h, slots, user) ==
    IF slots.importantBlockRule # 0
    THEN Returned(TRUE, "Important Blocked", slots.importantBlockRule, user, <<>>)
    ELSE IF slots.importantWhitelistRule # 0
    THEN Returned(FALSE, "Important Whitelisted", slots.importantWhitelistRule,
                  user, <<>>)
    ELSE IF slots.blockRule # 0
    THEN Returned(TRUE, "Blocked", slots.blockRule, user, <<>>)
    ELSE Returned(FALSE, "Whitelisted", slots.whitelistRule, user, <<>>)

\* the result a group with a decisive slot returns
\* the rewrite destination taken from the block rule before the whitelist
\* rules are looked at
GroupResultRewriteBeforeWhitelist(h, slots, user) ==
    LET rewrite == IF slots.blockRule # 0
                   THEN h[slots.blockRule].Modifiers.DNSRewrite ELSE <<>>
    IN  IF slots.importantWhitelistRule # 0
        THEN Returned(FALSE, "Important Whitelisted",
                      slots.importantWhitelistRule, user, rewrite)
        ELSE IF slots.importantBlockRule # 0
        THEN Returned(TRUE, "Important Blocked", slots.importantBlockRule,
                      user, <<>>)
        ELSE IF slots.whitelistRule # 0
        THEN Returned(FALSE, "Whitelisted", slots.whitelistRule, user, rewrite)
        ELSE IF rewrite # <<>>
        THEN Returned(TRUE, "Rewrite", slots.blockRule, user, rewrite)
        ELSE Returned(TRUE, "Blocked", slots.blockRule, user, <<>>)

GroupResult(h, slots, user) ==
    IF slots.importantWhitelistRule # 0
    THEN Returned(FALSE, "Important Whitelisted", slots.importantWhitelistRule,
                  user, <<>>)
    ELSE IF slots.importantBlockRule # 0
    THEN Returned(TRUE, "Important Blocked", slots.importantBlockRule, user, <<>>)
    ELSE IF slots.whitelistRule # 0
    THEN Returned(FALSE, "Whitelisted", slots.whitelistRule, user, <<>>)
    ELSE IF h[slots.blockRule].Modifiers.DNSRewrite # <<>>
    THEN Returned(TRUE, "Rewrite", slots.blockRule, user,
                  h[slots.blockRule].Modifiers.DNSRewrite)
    ELSE Returned(TRUE, "Blocked", slots.blockRule, user, <<>>)

EvaluateLastGroupWins(h, activeGroupIDs, allMatches, user, q) ==
    LET S == {i \in 1..Len(activeGroupIDs) :
                 Decisive(GroupSlots(h, allMatches, activeGroupIDs[i], user, q))}
    IN  IF S = {} THEN Returned(FALSE, "Not found", 0, user, <<>>)
        ELSE GroupResult(h, GroupSlots(h, allMatches,
                 activeGroupIDs[CHOOSE i \in S : \A j \in S : j <= i], user, q),
                 user)

\* Resolve, step 5: the first active group with a decisive slot decides
Evaluate(h, activeGroupIDs, allMatches, user, q) ==
    LET S == {i \in 1..Len(activeGroupIDs) :
                 Decisive(GroupSlots(h, allMatches, activeGroupIDs[i], user, q))}
    IN  IF S = {} THEN Returned(FALSE, "Not found", 0, user, <<>>)
        ELSE GroupResult(h, GroupSlots(h, allMatches,
                 activeGroupIDs[CHOOSE i \in S : \A j \in S : i <= j], user, q),
                 user)

\* Resolve, step 4: the candidates of the published index
AllMatches(h, t, rx, qName) ==
    SearchTrace(t, qName) \o RegexMatches(h, rx.rules, qName)

\* Resolve as one step, on rule objects h and index (t, rx), at time tnow
Resolve(c, h, t, rx, tnow, q) ==
    LET user == Match(NewUserMatcher(c), q.ip, q.mac)
        activeGroupIDs == getActiveGroupIDs(c, UserGroupName(c, user), tnow)
    IN  IF Len(activeGroupIDs) = 0
        THEN Returned(FALSE, "No active rules", 0, user, <<>>)
        ELSE Evaluate(h, activeGroupIDs, AllMatches(h, t, rx, q.qName), user, q)

NoResult ==
    [called |-> FALSE, Blocked |-> FALSE, Reason |-> "", Rule |-> 0,
     User |-> Nil, DNSRewrite |-> <<>>]

----------------------------------------------------------------------------
(* engine/engine.go: ReloadRules, the insertion of one rule *)

NewIndex(ver) ==
    [trie |-> NewDomainTrie(ver), regexRules |-> [ver |-> ver, rules |-> <<>>]]

\* the switch on r.Type in the insert loop, for the rule object at rid
IndexInsert(ix, r, rid) ==
    IF r.Type \in {RuleTypeExact, RuleTypeDistinguish}
    THEN [ix EXCEPT !.trie = Insert(@, rid, r.Pattern)]
    ELSE IF r.Type = RuleTypeRegex /\ Compiles(r.Pattern)
    THEN [ix EXCEPT !.regexRules.rules = Append(@, rid)]
    ELSE ix

\* the index one reload builds when the loaders run one after the other
\* and hand over the rule objects h[1], h[2], ... in this order
RECURSIVE LoadAll(_, _, _)
LoadAll(ix, h, rid) ==
    IF rid > Len(h) THEN ix
    ELSE LoadAll(IndexInsert(ix, h[rid], rid), h, rid + 1)

----------------------------------------------------------------------------
(* the states no reload is running in *)

TrieMuFree == [readers |-> 0, writer |-> FALSE]

ReloadIdle(done) ==
    [pc |-> "idle", done |-> done, newTrie |-> NewDomainTrie(0),
     newRegexRules |-> [ver |-> 0, rules |-> <<>>]]

ResolverIdle ==
    [pc |-> "idle", user |-> Nil, activeGroupIDs |-> <<>>, allMatches |-> <<>>,
     gi |-> 0, trieVer |-> 0, regexVer |-> 0, began |-> 0]

NoSnap == [heap |-> <<>>, trie |-> NewDomainTrie(0),
           regexRules |-> [ver |-> 0, rules |-> <<>>]]

\* a configuration: every rule group has one URL source of its own name
Source(name, url, path) == [Name |-> name, URL |-> url, Path |-> path]

Config(ruleGroups, policies, users, schedules) ==
    [RuleGroups |-> ruleGroups,
     UserGroups |-> <<[Name |-> "default", Policies |-> policies]>>,
     Users      |-> users,
     Schedules  |-> schedules,
     Defaults   |-> [UserGroup |-> "default"]]

URLGroup(name) == [Name |-> name, Sources |-> <<Source(name, name, "")>>]

Policy(ruleGroup, schedule) == [RuleGroup |-> ruleGroup, Schedule |-> schedule]

Noon == [weekday |-> 1, hour |-> 0, minute |-> 0]

\* no answer written yet
NoAnswer == [n |-> 0, from |-> "", msg |-> Nil, at |-> 0]

\* NewServer: two empty caches
NewServer ==
    /\ clock = 0
    /\ UserGroupCache = <<>>
    /\ UpstreamCache = <<>>
    /\ msgs = <<>>
    /\ held = {}
    /\ written = NoAnswer

\* the engine after one reload that loaded the rule objects h, serving
InitServing(c, t, h, q) ==
    /\ cfg = c
    /\ now = t
    /\ heap = h
    /\ trie = LoadAll(NewIndex(1), h, 1).trie
    /\ regexRules = LoadAll(NewIndex(1), h, 1).regexRules
    /\ fileRuleCache = <<>>
    /\ trieMu = TrieMuFree
    /\ mu = 0
    /\ reload = ReloadIdle(1)
    /\ loaders = <<>>
    /\ query = q
    /\ resolver = ResolverIdle
    /\ result = NoResult
    /\ preSnap = NoSnap
    /\ NewServer

\* Resolve while no reload runs, as one step
ResolveCall ==
    /\ reload.pc = "idle"
    /\ resolver.pc = "idle"
    /\ result' = Resolve(cfg, heap, trie, regexRules, now, query)
    /\ UNCHANGED <<cfg, now, heap, trie, regexRules, fileRuleCache, trieMu, mu,
                   reload, loaders, query, resolver, preSnap>>
    /\ UNCHANGED serverVars

----------------------------------------------------------------------------
(* Resolve on one trie rule: names and patterns *)

MaxNameLen == 4
MaxPatternLen == 3

Alphabet == {"a", "b", "."}

Strs(n) == UNION {[1..k -> Alphabet] : k \in 0..n}

Stamped(r, gid) == [r EXCEPT !.GroupID = gid]

OneGroupConfig == Config(<<URLGroup("g1")>>, <<Policy("g1", "")>>, <<>>, <<>>)

Anyone(qName) == [qName |-> qName, qType |-> "A", ip |-> "192.168.1.5", mac |-> ""]

DenyAllowValues ==
    { <<>>,
      << <<"a">> >>,
      << <<"b", ".", "a">> >>,
      << <<"b", ".", "a", "|", "a", ".", "a">> >>,
      << <<"a", ".", "a">>, <<" ", "b", ".", "a", " ">> >> }

InitMatch ==
    \/ \E type \in {RuleTypeExact, RuleTypeDistinguish},
          pattern \in Strs(MaxPatternLen), qName \in Strs(MaxNameLen) :
          InitServing(OneGroupConfig, Noon,
              <<Stamped(Rule("r", pattern, type, FALSE, NoModifiers), 1)>>,
              Anyone(qName))
    \/ \E da \in DenyAllowValues, qName \in Strs(MaxNameLen) :
          InitServing(OneGroupConfig, Noon,
              <<Stamped(Rule("r", <<"a">>, RuleTypeDistinguish, FALSE,
                             [NoModifiers EXCEPT !.DenyAllow = da]), 1)>>,
              Anyone(qName))

SpecMatch == InitMatch /\ [][ResolveCall]_vars

\* the name as Resolve compares it: without one trailing dot
Normalized(qName) == TrimSuffix(qName, <<".">>)

\* q is P or ends with "." P
AtOrBelow(q, P) == q = P \/ HasSuffix(q, <<".">> \o P)

\* the single rule of the index decided the query
DecidedByRule1 == result.called /\ result.Blocked /\ result.Rule = 1

\* C6: a Subdomain rule with pattern P and no modifiers, in an active
\* group, decides query q iff q without its trailing dot equals P or ends
\* with "." P; a name with P as a mere textual suffix is not decided by it
C6_SubdomainCoverage ==
    (/\ result.called
     /\ heap[1].Type = RuleTypeDistinguish
     /\ heap[1].Modifiers = NoModifiers)
    => (DecidedByRule1 <=> AtOrBelow(Normalized(query.qName), heap[1].Pattern))

\* a name that has P as a textual suffix, not at a label boundary, and is
\* not decided by the rule
C6_Witness ==
    /\ result.called
    /\ heap[1].Type = RuleTypeDistinguish
    /\ heap[1].Modifiers = NoModifiers
    /\ heap[1].Pattern = <<"a", ".", "b">>
    /\ query.qName = <<"a", "a", ".", "b">>
    /\ ~result.Blocked

\* C7: an Exact rule decides a query only when the name without its
\* trailing dot equals the pattern, never for a strict subdomain, although
\* the trie returns the rule as a candidate for every name below it
C7_ExactStrictness ==
    (/\ result.called
     /\ heap[1].Type = RuleTypeExact
     /\ heap[1].Modifiers = NoModifiers)
    => (DecidedByRule1 <=> Normalized(query.qName) = heap[1].Pattern)

\* a strict subdomain of the pattern: the rule is a candidate of the trie
\* and the query is not blocked
C7_Witness ==
    /\ result.called
    /\ heap[1].Type = RuleTypeExact
    /\ heap[1].Pattern = <<"a">>
    /\ query.qName = <<"b", ".", "a", ".">>
    /\ SearchTrace(trie, query.qName) = <<1>>
    /\ ~result.Blocked

\* the $denyallow domains of rule r
DenyAllowDomains(r) ==
    {TrimSpace(Targets(r.Modifiers.DenyAllow)[i]) :
        i \in 1..Len(Targets(r.Modifiers.DenyAllow))}

\* C10: a rule with $denyallow that matches the name is inapplicable iff
\* the name without its trailing dot is one of the denyallow domains
C10_DenyAllowExact ==
    (/\ result.called
     /\ Len(heap[1].Modifiers.DenyAllow) > 0
     /\ AtOrBelow(Normalized(query.qName), heap[1].Pattern))
    => (~DecidedByRule1 <=>
            Normalized(query.qName) \in DenyAllowDomains(heap[1]))

\* a strict subdomain of a denyallow domain is still blocked
C10_Witness ==
    /\ result.called
    /\ heap[1].Modifiers.DenyAllow = << <<"a">> >>
    /\ query.qName = <<"b", ".", "a">>
    /\ DecidedByRule1

----------------------------------------------------------------------------
(* Resolve on one rule with $client: token lists and clients *)

MaxTokens == 2

Users ==
    << [Name |-> "alice", IPs |-> <<"10.0.0.5">>, MACs |-> <<"m1">>,
        UserGroup |-> "default"],
       [Name |-> "bob", IPs |-> <<"10.0.0.0/16">>, MACs |-> <<>>,
        UserGroup |-> "default"] >>

UsersConfig == Config(<<URLGroup("g1")>>, <<Policy("g1", "")>>, Users, <<>>)

\* a $client token as the rule file writes it: target, with "~" when neg
ClientTokens ==
    [neg : BOOLEAN,
     target : {"alice", "10.0.1.7", "10.0.0.0/24", "2001:DB8::1"}]

TokenText(tok) == IF tok.neg THEN <<"~", tok.target>> ELSE <<tok.target>>

\* the tokens joined with "|" into one modifier value
RECURSIVE Joined(_)
Joined(toks) ==
    IF Len(toks) = 1 THEN TokenText(toks[1])
    ELSE TokenText(Head(toks)) \o <<"|">> \o Joined(Tail(toks))

\* one modifier value for each token
RECURSIVE Separate(_)
Separate(toks) ==
    IF toks = <<>> THEN <<>> ELSE <<TokenText(Head(toks))>> \o Separate(Tail(toks))

ClientAddrs == {"10.0.0.5", "10.0.1.7", "192.168.1.5", "2001:db8::1"}

\* the rule's Text keeps the tokens as written
InitClient ==
    \E k \in 1..MaxTokens :
      \E toks \in [1..k -> ClientTokens], joined \in BOOLEAN,
         ip \in ClientAddrs, mac \in {"", "m1"} :
          InitServing(UsersConfig, Noon,
              <<Stamped(Rule(toks, <<"a">>, RuleTypeDistinguish, FALSE,
                    [NoModifiers EXCEPT !.Client =
                        IF joined THEN <<Joined(toks)>> ELSE Separate(toks)]), 1)>>,
              [qName |-> <<"a", ".">>, qType |-> "A", ip |-> ip, mac |-> mac])

SpecClient == InitClient /\ [][ResolveCall]_vars

\* the configured user of the client of the query: MAC m1 and address
\* 10.0.0.5 are alice's, the other addresses of 10.0.0.0/16 are bob's
UserNameOfClient ==
    IF query.mac = "m1" \/ query.ip = "10.0.0.5" THEN "alice"
    ELSE IF query.ip = "10.0.1.7" THEN "bob" ELSE ""

\* a token, without its "~", names the client: by user name, by its
\* address, or by a prefix holding its address
TokenNamesClient(tok) ==
    \/ tok.target = UserNameOfClient
    \/ tok.target = "10.0.1.7" /\ query.ip = "10.0.1.7"
    \/ tok.target = "2001:DB8::1" /\ query.ip = "2001:db8::1"
    \/ tok.target = "10.0.0.0/24" /\ query.ip = "10.0.0.5"

\* C9: the first token alone fixes the mode of a $client rule: with "~" the
\* rule applies exactly when no token (without "~") names the client,
\* without "~" exactly when some token does
C9_ClientMode ==
    (result.called /\ Len(heap[1].Modifiers.Client) > 0)
    => LET toks == heap[1].Text
           named == \E i \in 1..Len(toks) : TokenNamesClient(toks[i])
       IN  DecidedByRule1 <=> (IF toks[1].neg THEN ~named ELSE named)

\* exclusion mode set by the first token, a second token without "~" that
\* names the client: the rule does not apply
C9_Witness ==
    /\ result.called
    /\ heap[1].Modifiers.Client = << <<"~", "alice", "|", "10.0.1.7">> >>
    /\ query.ip = "10.0.1.7"
    /\ query.mac = ""
    /\ ~result.Blocked

----------------------------------------------------------------------------
(* Resolve under one scheduled policy: schedules and clock readings *)

MaxHour == 1
MaxMinute == 1

TwoDigits(n) == <<"00", "01", "02", "03", "04", "05">>[n + 1]

\* "HH:MM-HH:MM"
RangeText(h1, m1, h2, m2) ==
    <<TwoDigits(h1), ":", TwoDigits(m1), "-", TwoDigits(h2), ":", TwoDigits(m2)>>

DayLists == {<<>>, <<"Mon">>, <<"tue", "MONDAY">>}

SundayItem == [Days |-> <<"Sun">>, Ranges |-> <<RangeText(0, 0, 0, 0)>>]

ScheduleConfig(items, scheduleName) ==
    Config(<<URLGroup("g1")>>, <<Policy("g1", scheduleName)>>, <<>>,
           <<[Name |-> "s", Items |-> items]>>)

InitSchedule ==
    \E days \in DayLists, h1 \in 0..MaxHour, m1 \in 0..MaxMinute,
       h2 \in 0..MaxHour, m2 \in 0..MaxMinute, more \in BOOLEAN,
       scheduleName \in {"", "s", "unknown"},
       weekday \in Sunday..Saturday, hour \in 0..MaxHour,
       minute \in 0..MaxMinute :
        InitServing(
            ScheduleConfig(
                <<[Days |-> days, Ranges |-> <<RangeText(h1, m1, h2, m2)>>]>>
                    \o (IF more THEN <<SundayItem>> ELSE <<>>),
                scheduleName),
            [weekday |-> weekday, hour |-> hour, minute |-> minute],
            <<Stamped(Rule("r", <<"a">>, RuleTypeDistinguish, FALSE,
                           NoModifiers), 1)>>,
            Anyone(<<"a">>))

SpecSchedule == InitSchedule /\ [][ResolveCall]_vars

\* the weekdays a list of day names means; no names: every day
DaysMeant(days) ==
    IF days = <<>> THEN Sunday..Saturday
    ELSE IF days = <<"Mon">> THEN {1}
    ELSE IF days = <<"Sun">> THEN {0}
    ELSE {1, 2}

\* the clock is inside a range of the item on the item's days
InsideItem(item) ==
    /\ now.weekday \in DaysMeant(item.Days)
    /\ \E h1 \in 0..MaxHour, m1 \in 0..MaxMinute,
          h2 \in 0..MaxHour, m2 \in 0..MaxMinute :
          /\ InSeq(RangeText(h1, m1, h2, m2), item.Ranges)
          /\ h1 * 60 + m1 <= now.hour * 60 + now.minute
          /\ now.hour * 60 + now.minute <= h2 * 60 + m2

\* the clock is inside the schedule the single policy names
InsideSchedule ==
    /\ cfg.UserGroups[1].Policies[1].Schedule = "s"
    /\ \E i \in 1..Len(cfg.Schedules[1].Items) :
           InsideItem(cfg.Schedules[1].Items[i])

----------------------------------------------------------------------------
(* Resolve on several rules of several groups: priorities *)

MaxRules == 3

ThreeGroups == <<URLGroup("g1"), URLGroup("g2"), URLGroup("g3")>>

PolicyLists ==
    { <<Policy("g1", ""), Policy("g2", ""), Policy("g3", "")>>,
      <<Policy("g2", ""), Policy("g1", ""), Policy("g2", "")>>,
      <<Policy("g2", "")>> }

\* the rules of the files: block or whitelist, important or not, on the
\* name a.c itself (||a.c^) or an Exact rule of its parent c, which the
\* trie returns for a.c and the Exact check drops
RuleShapes ==
    {Rule("r", pattern_type[1], pattern_type[2], isWhitelist,
          [NoModifiers EXCEPT !.Important = important]) :
        pattern_type \in {<< <<"a", ".", "c">>, RuleTypeDistinguish >>,
                          << <<"c">>, RuleTypeExact >>},
        isWhitelist \in BOOLEAN, important \in BOOLEAN}

InitDecide ==
    \E n \in 1..MaxRules :
      \E shapes \in [1..n -> RuleShapes], gids \in [1..n -> 1..2],
         policies \in PolicyLists :
          InitServing(Config(ThreeGroups, policies, <<>>, <<>>), Noon,
              [i \in 1..n |-> Stamped(shapes[i], gids[i])],
              Anyone(<<"a", ".", "c", ".">>))

SpecDecide == InitDecide /\ [][ResolveCall]_vars

\* the rule groups the policies of the user group name, all without a
\* schedule here
PolicyGroup(i) == GroupID(cfg, cfg.UserGroups[1].Policies[i].RuleGroup)

ActiveGroups == {PolicyGroup(i) : i \in DOMAIN cfg.UserGroups[1].Policies}

FirstPolicyOf(g) ==
    CHOOSE i \in DOMAIN cfg.UserGroups[1].Policies :
        /\ PolicyGroup(i) = g
        /\ \A j \in DOMAIN cfg.UserGroups[1].Policies :
               PolicyGroup(j) = g => i <= j

\* g1 is listed before g2
Before(g1, g2) == FirstPolicyOf(g1) < FirstPolicyOf(g2)

\* the rules of group g that match the query and apply to it
Matching(g) ==
    {i \in DOMAIN heap :
        /\ heap[i].GroupID = g
        /\ IF heap[i].Type = RuleTypeExact
           THEN Normalized(query.qName) = heap[i].Pattern
           ELSE AtOrBelow(Normalized(query.qName), heap[i].Pattern)}

ImportantOnes(g) == {i \in Matching(g) : heap[i].Modifiers.Important}

DecidedIn(g) == result.Rule \in Matching(g)

\* g is the first listed group with an applicable rule
FirstMatching(g) ==
    /\ g \in ActiveGroups
    /\ Matching(g) # {}
    /\ \A g0 \in ActiveGroups : Before(g0, g) => Matching(g0) = {}

\* C3 as stated: for every two active groups G1 before G2, an applicable
\* rule of G1 makes a rule of G1 decide the result
C3_Original ==
    result.called =>
        \A g1 \in ActiveGroups, g2 \in ActiveGroups :
            (Before(g1, g2) /\ Matching(g1) # {}) => DecidedIn(g1)

\* C3: for two active groups G1 before G2, when an applicable rule of G1
\* matches, the result is decided by a rule of G1 or of a group listed
\* before G1, never by a rule of G2, whatever the importance of the rules
\* of G2; it is decided by a rule of G1 when no group listed before G1
\* has an applicable rule
C3_GroupOrder ==
    result.called =>
        \A g1 \in ActiveGroups, g2 \in ActiveGroups :
            (Before(g1, g2) /\ Matching(g1) # {}) =>
                /\ ~DecidedIn(g2)
                /\ \E g0 \in ActiveGroups :
                       (g0 = g1 \/ Before(g0, g1)) /\ DecidedIn(g0)
                /\ FirstMatching(g1) => DecidedIn(g1)

\* a plain block rule of G1 decides against an important whitelist rule
\* of G2, with a third group listed after them
C3_Witness ==
    /\ result.called
    /\ Len(cfg.UserGroups[1].Policies) = 3
    /\ \E g1 \in ActiveGroups, g2 \in ActiveGroups :
          /\ Before(g1, g2)
          /\ Matching(g1) # {} /\ ImportantOnes(g1) = {}
          /\ \E i \in ImportantOnes(g2) : heap[i].IsWhitelist
          /\ DecidedIn(g1)
          /\ result.Blocked

\* C4: in a group with an applicable $important rule, no applicable
\* non-important rule of the group decides; when the group decides, an
\* $important rule of it does: an important block beats a plain whitelist,
\* an important whitelist beats a plain block
C4_ImportantTier ==
    result.called =>
        \A g \in ActiveGroups :
            ImportantOnes(g) # {} =>
                /\ result.Rule \notin Matching(g) \ ImportantOnes(g)
                /\ FirstMatching(g) =>
                       /\ result.Rule \in ImportantOnes(g)
                       /\ result.Blocked = ~heap[result.Rule].IsWhitelist

\* an important block rule decides in a group with a plain whitelist rule
C4_Witness ==
    /\ result.called
    /\ \E g \in ActiveGroups :
          /\ FirstMatching(g)
          /\ \E i \in Matching(g) :
                heap[i].IsWhitelist /\ ~heap[i].Modifiers.Important
          /\ result.Rule \in ImportantOnes(g)
          /\ result.Blocked
          /\ result.Reason = "Important Blocked"

\* an applicable whitelist rule and an applicable block rule of group g,
\* both of the tier important
SameTierPair(g, important) ==
    \E i \in Matching(g), j \in Matching(g) :
        /\ heap[i].IsWhitelist /\ ~heap[j].IsWhitelist
        /\ heap[i].Modifiers.Important = important
        /\ heap[j].Modifiers.Important = important

\* C5 as stated: in the group that decides, a whitelist rule and a block
\* rule of the same tier give not-blocked
C5_Original ==
    result.called =>
        \A g \in ActiveGroups, important \in BOOLEAN :
            (FirstMatching(g) /\ SameTierPair(g, important)) => ~result.Blocked

\* C5: in the group that decides, an applicable whitelist rule and an
\* applicable block rule of the same tier, with no applicable rule of a
\* higher tier in the group, give not-blocked: the whitelist rule decides
C5_WhitelistWins ==
    result.called =>
        \A g \in ActiveGroups, important \in BOOLEAN :
            (/\ FirstMatching(g)
             /\ SameTierPair(g, important)
             /\ ~important => ImportantOnes(g) = {})
            => /\ ~result.Blocked
               /\ DecidedIn(g)
               /\ heap[result.Rule].IsWhitelist
               /\ heap[result.Rule].Modifiers.Important = important

\* a plain whitelist rule decides against a plain block rule of its group
C5_Witness ==
    /\ result.called
    /\ \E g \in ActiveGroups :
          /\ FirstMatching(g)
          /\ SameTierPair(g, FALSE)
          /\ ImportantOnes(g) = {}
    /\ ~result.Blocked
    /\ result.Reason = "Whitelisted"

----------------------------------------------------------------------------
(* The engine with its goroutines: main's first ReloadRules, the updater's *)
(* later ones, the loader goroutine of every source, and a Resolve call of *)
(* the server, which main starts after the first ReloadRules has returned  *)

MaxReloads == 2

\* what the files and URLs hold, parsed
Files(name) ==
    CASE name = "p1" ->
           <<Rule("||a.c^", <<"a", ".", "c">>, RuleTypeDistinguish, FALSE,
                  NoModifiers)>>
      [] name = "u1" ->
           <<Rule("/^a\\./", <<"^", "a", "\\.">>, RuleTypeRegex, FALSE,
                  NoModifiers)>>
      [] OTHER -> <<>>

\* two groups that share the file p1 and a group with a remote source
SharedPathGroups ==
    <<[Name |-> "g1", Sources |-> <<Source("s1", "", "p1")>>],
      [Name |-> "g2", Sources |-> <<Source("s2", "", "p1")>>],
      [Name |-> "g3", Sources |-> <<Source("s3", "u1", "")>>]>>

BootPolicies ==
    { <<Policy("g2", "")>>, <<Policy("g1", ""), Policy("g3", "")>> }

Init ==
    \E policies \in BootPolicies :
        /\ cfg = Config(SharedPathGroups, policies, <<>>, <<>>)
        /\ now = Noon
        /\ heap = <<>>
        /\ trie = NewDomainTrie(0)
        /\ regexRules = [ver |-> 0, rules |-> <<>>]
        /\ fileRuleCache = <<>>
        /\ trieMu = TrieMuFree
        /\ mu = 0
        /\ reload = ReloadIdle(0)
        /\ loaders = <<>>
        /\ query = Anyone(<<"a", ".", "c", ".">>)
        /\ resolver = ResolverIdle
        /\ result = NoResult
        /\ preSnap = NoSnap
        /\ NewServer

\* sync.RWMutex
CanRLockIgnoringWriter(m) == TRUE

CanRLock(m) == ~m.writer

CanLockWithWriter(m) == m.readers = 0

CanLock(m) == ~m.writer /\ m.readers = 0

\* Updater.RunSimple: whether any source has a URL
hasRemote(c) ==
    \E g \in 1..Len(c.RuleGroups) :
        \E k \in 1..Len(c.RuleGroups[g].Sources) :
            c.RuleGroups[g].Sources[k].URL # ""

\* the goroutines ReloadRules starts: one per source, with the id of its group
RECURSIVE Goroutines(_, _)
Goroutines(c, g) ==
    IF g > Len(c.RuleGroups) THEN <<>>
    ELSE [k \in 1..Len(c.RuleGroups[g].Sources) |->
             [src |-> c.RuleGroups[g].Sources[k],
              gid |-> GroupID(c, c.RuleGroups[g].Name),
              pc |-> "start", rules |-> <<>>, i |-> 0, err |-> FALSE]]
         \o Goroutines(c, g + 1)

\* ReloadRules up to the start of the goroutines: main calls it once before
\* the server starts, the updater again when a source is remote
ReloadRules ==
    /\ reload.pc = "idle"
    /\ \/ reload.done = 0
       \/ hasRemote(cfg) /\ reload.done >= 1 /\ reload.done < MaxReloads
    /\ reload' = [reload EXCEPT !.pc = "loading",
                                !.newTrie = NewDomainTrie(reload.done + 1),
                                !.newRegexRules =
                                    [ver |-> reload.done + 1, rules |-> <<>>]]
    /\ loaders' = Goroutines(cfg, 1)
    /\ preSnap' = [heap |-> heap, trie |-> trie, regexRules |-> regexRules]
    /\ UNCHANGED <<cfg, now, heap, trie, regexRules, fileRuleCache, trieMu, mu,
                   query, resolver, result>>
    /\ UNCHANGED serverVars

\* the rule objects a load allocates: fresh, not stamped yet
Allocated(h, rules) == [k \in 1..Len(rules) |-> Len(h) + k]

\* a path source: the lookup in fileRuleCache under the read lock
LoaderCheckCache(l) ==
    /\ loaders[l].pc = "start"
    /\ loaders[l].src.Path # ""
    /\ CanRLock(trieMu)
    /\ loaders' = IF loaders[l].src.Path \in DOMAIN fileRuleCache
                  THEN [loaders EXCEPT
                           ![l].rules = fileRuleCache[loaders[l].src.Path],
                           ![l].pc = "loaded"]
                  ELSE [loaders EXCEPT ![l].pc = "load"]
    /\ UNCHANGED <<cfg, now, heap, trie, regexRules, fileRuleCache, trieMu, mu,
                   reload, query, resolver, result, preSnap>>
    /\ UNCHANGED serverVars

\* a path source not in the cache: LoadFromPath, which may fail
LoaderLoadFromPath(l) ==
    /\ loaders[l].pc = "load"
    /\ \E ok \in BOOLEAN :
          IF ok
          THEN /\ heap' = heap \o Files(loaders[l].src.Path)
               /\ loaders' = [loaders EXCEPT
                     ![l].rules = Allocated(heap, Files(loaders[l].src.Path)),
                     ![l].pc = "update"]
          ELSE /\ heap' = heap
               /\ loaders' = [loaders EXCEPT ![l].pc = "done", ![l].err = TRUE]
    /\ UNCHANGED <<cfg, now, trie, regexRules, fileRuleCache, trieMu, mu,
                   reload, query, resolver, result, preSnap>>
    /\ UNCHANGED serverVars

\* e.trieMu.Lock() before the store into fileRuleCache
LoaderLockCache(l) ==
    /\ loaders[l].pc = "update"
    /\ CanLock(trieMu)
    /\ trieMu' = [trieMu EXCEPT !.writer = TRUE]
    /\ loaders' = [loaders EXCEPT ![l].pc = "store"]
    /\ UNCHANGED <<cfg, now, heap, trie, regexRules, fileRuleCache, mu, reload,
                   query, resolver, result, preSnap>>
    /\ UNCHANGED serverVars

\* the store into fileRuleCache and e.trieMu.Unlock()
LoaderUpdateCache(l) ==
    /\ loaders[l].pc = "store"
    /\ fileRuleCache' =
           (loaders[l].src.Path :> loaders[l].rules) @@ fileRuleCache
    /\ trieMu' = [trieMu EXCEPT !.writer = FALSE]
    /\ loaders' = [loaders EXCEPT ![l].pc = "loaded"]
    /\ UNCHANGED <<cfg, now, heap, trie, regexRules, mu, reload, query,
                   resolver, result, preSnap>>
    /\ UNCHANGED serverVars

LoaderLoadFromURLKeepsRulesOnError(l) ==
    /\ loaders[l].pc = "start"
    /\ loaders[l].src.Path = ""
    /\ loaders[l].src.URL # ""
    /\ \E ok \in BOOLEAN :
          /\ heap' = heap \o Files(loaders[l].src.URL)
          /\ loaders' = [loaders EXCEPT
                ![l].rules = Allocated(heap, Files(loaders[l].src.URL)),
                ![l].pc = "loaded", ![l].err = ~ok]
    /\ UNCHANGED <<cfg, now, trie, regexRules, fileRuleCache, trieMu, mu,
                   reload, query, resolver, result, preSnap>>
    /\ UNCHANGED serverVars

\* a URL source: LoadFromURLWithCache parses the file anew, or fails
LoaderLoadFromURL(l) ==
    /\ loaders[l].pc = "start"
    /\ loaders[l].src.Path = ""
    /\ loaders[l].src.URL # ""
    /\ \E ok \in BOOLEAN :
          IF ok
          THEN /\ heap' = heap \o Files(loaders[l].src.URL)
               /\ loaders' = [loaders EXCEPT
                     ![l].rules = Allocated(heap, Files(loaders[l].src.URL)),
                     ![l].pc = "loaded"]
          ELSE /\ heap' = heap
               /\ loaders' = [loaders EXCEPT ![l].pc = "done", ![l].err = TRUE]
    /\ UNCHANGED <<cfg, now, trie, regexRules, fileRuleCache, trieMu, mu,
                   reload, query, resolver, result, preSnap>>
    /\ UNCHANGED serverVars

\* mu.Lock()
LoaderLock(l) ==
    /\ loaders[l].pc = "loaded"
    /\ mu = 0
    /\ mu' = l
    /\ loaders' = [loaders EXCEPT ![l].pc = "insert", ![l].i = 1]
    /\ UNCHANGED <<cfg, now, heap, trie, regexRules, fileRuleCache, trieMu,
                   reload, query, resolver, result, preSnap>>
    /\ UNCHANGED serverVars

\* one round of the insert loop: r.GroupID = gid, then the switch on r.Type
LoaderInsert(l) ==
    /\ loaders[l].pc = "insert"
    /\ loaders[l].i <= Len(loaders[l].rules)
    /\ LET rid == loaders[l].rules[loaders[l].i]
           r   == [heap[rid] EXCEPT !.GroupID = loaders[l].gid]
           ix  == IndexInsert([trie |-> reload.newTrie,
                               regexRules |-> reload.newRegexRules], r, rid)
       IN  /\ heap' = [heap EXCEPT ![rid] = r]
           /\ reload' = [reload EXCEPT !.newTrie = ix.trie,
                                       !.newRegexRules = ix.regexRules]
    /\ loaders' = [loaders EXCEPT ![l].i = @ + 1]
    /\ UNCHANGED <<cfg, now, trie, regexRules, fileRuleCache, trieMu, mu, query,
                   resolver, result, preSnap>>
    /\ UNCHANGED serverVars

\* the goroutine ends without mu.Unlock()
LoaderReturnHoldingMu(l) ==
    /\ loaders[l].pc = "insert"
    /\ loaders[l].i > Len(loaders[l].rules)
    /\ mu' = mu
    /\ loaders' = [loaders EXCEPT ![l].pc = "done"]
    /\ UNCHANGED <<cfg, now, heap, trie, regexRules, fileRuleCache, trieMu,
                   reload, query, resolver, result, preSnap>>
    /\ UNCHANGED serverVars

\* mu.Unlock() and the end of the goroutine
LoaderUnlock(l) ==
    /\ loaders[l].pc = "insert"
    /\ loaders[l].i > Len(loaders[l].rules)
    /\ mu' = 0
    /\ loaders' = [loaders EXCEPT ![l].pc = "done"]
    /\ UNCHANGED <<cfg, now, heap, trie, regexRules, fileRuleCache, trieMu,
                   reload, query, resolver, result, preSnap>>
    /\ UNCHANGED serverVars

\* wg.Wait() and e.trieMu.Lock()
ReloadSwapLock ==
    /\ reload.pc = "loading"
    /\ \A l \in DOMAIN loaders : loaders[l].pc = "done"
    /\ CanLock(trieMu)
    /\ trieMu' = [trieMu EXCEPT !.writer = TRUE]
    /\ reload' = [reload EXCEPT !.pc = "locked"]
    /\ UNCHANGED <<cfg, now, heap, trie, regexRules, fileRuleCache, mu, loaders,
                   query, resolver, result, preSnap>>
    /\ UNCHANGED serverVars

\* e.trie = newTrie
ReloadSwapTrie ==
    /\ reload.pc = "locked"
    /\ trie' = reload.newTrie
    /\ reload' = [reload EXCEPT !.pc = "trie"]
    /\ UNCHANGED <<cfg, now, heap, regexRules, fileRuleCache, trieMu, mu,
                   loaders, query, resolver, result, preSnap>>
    /\ UNCHANGED serverVars

\* e.regexRules = newRegexRules
ReloadSwapRegex ==
    /\ reload.pc = "trie"
    /\ regexRules' = reload.newRegexRules
    /\ reload' = [reload EXCEPT !.pc = "regex"]
    /\ UNCHANGED <<cfg, now, heap, trie, fileRuleCache, trieMu, mu, loaders,
                   query, resolver, result, preSnap>>
    /\ UNCHANGED serverVars

\* e.trieMu.Unlock() and the return of ReloadRules
ReloadSwapUnlock ==
    /\ reload.pc = "regex"
    /\ trieMu' = [trieMu EXCEPT !.writer = FALSE]
    /\ reload' = ReloadIdle(reload.done + 1)
    /\ loaders' = <<>>
    /\ UNCHANGED <<cfg, now, heap, trie, regexRules, fileRuleCache, mu, query,
                   resolver, result, preSnap>>
    /\ UNCHANGED serverVars

\* Resolve, steps 1 to 3: the user and the active groups; the server
\* answers queries once main's ReloadRules has returned
ResolveBegin ==
    /\ reload.done >= 1
    /\ resolver.pc = "idle"
    /\ LET user == Match(NewUserMatcher(cfg), query.ip, query.mac)
           activeGroupIDs == getActiveGroupIDs(cfg, UserGroupName(cfg, user), now)
       IN  IF Len(activeGroupIDs) = 0
           THEN /\ result' = Returned(FALSE, "No active rules", 0, user, <<>>)
                /\ resolver' = [ResolverIdle EXCEPT !.began = reload.done]
           ELSE /\ result' = NoResult
                /\ resolver' = [ResolverIdle EXCEPT
                                   !.pc = "rlock", !.user = user,
                                   !.activeGroupIDs = activeGroupIDs,
                                   !.began = reload.done]
    /\ UNCHANGED <<cfg, now, heap, trie, regexRules, fileRuleCache, trieMu, mu,
                   reload, loaders, query, preSnap>>
    /\ UNCHANGED serverVars

\* e.trieMu.RLock()
ResolveRLock ==
    /\ resolver.pc = "rlock"
    /\ CanRLock(trieMu)
    /\ trieMu' = [trieMu EXCEPT !.readers = @ + 1]
    /\ resolver' = [resolver EXCEPT !.pc = "trie"]
    /\ UNCHANGED <<cfg, now, heap, trie, regexRules, fileRuleCache, mu, reload,
                   loaders, query, result, preSnap>>
    /\ UNCHANGED serverVars

\* allMatches := e.trie.SearchTrace(qName)
ResolveSearchTrie ==
    /\ resolver.pc = "trie"
    /\ resolver' = [resolver EXCEPT !.pc = "regex",
                                    !.allMatches = SearchTrace(trie, query.qName),
                                    !.trieVer = trie.ver]
    /\ UNCHANGED <<cfg, now, heap, trie, regexRules, fileRuleCache, trieMu, mu,
                   reload, loaders, query, result, preSnap>>
    /\ UNCHANGED serverVars

\* the loop over e.regexRules
ResolveScanRegex ==
    /\ resolver.pc = "regex"
    /\ resolver' = [resolver EXCEPT
                       !.pc = "runlock",
                       !.allMatches =
                           @ \o RegexMatches(heap, regexRules.rules, query.qName),
                       !.regexVer = regexRules.ver]
    /\ UNCHANGED <<cfg, now, heap, trie, regexRules, fileRuleCache, trieMu, mu,
                   reload, loaders, query, result, preSnap>>
    /\ UNCHANGED serverVars

\* e.trieMu.RUnlock()
ResolveRUnlock ==
    /\ resolver.pc = "runlock"
    /\ trieMu' = [trieMu EXCEPT !.readers = @ - 1]
    /\ resolver' = [resolver EXCEPT !.pc = "eval", !.gi = 1]
    /\ UNCHANGED <<cfg, now, heap, trie, regexRules, fileRuleCache, mu, reload,
                   loaders, query, result, preSnap>>
    /\ UNCHANGED serverVars

\* step 5, one round of the loop over activeGroupIDs: it reads r.GroupID of
\* the candidates, holding no lock
ResolveGroup ==
    /\ resolver.pc = "eval"
    /\ resolver.gi <= Len(resolver.activeGroupIDs)
    /\ LET slots == GroupSlots(heap, resolver.allMatches,
                               resolver.activeGroupIDs[resolver.gi],
                               resolver.user, query)
       IN  IF Decisive(slots)
           THEN /\ result' = GroupResult(heap, slots, resolver.user)
                /\ resolver' = [ResolverIdle EXCEPT !.began = resolver.began]
           ELSE /\ result' = result
                /\ resolver' = [resolver EXCEPT !.gi = @ + 1]
    /\ UNCHANGED <<cfg, now, heap, trie, regexRules, fileRuleCache, trieMu, mu,
                   reload, loaders, query, preSnap>>
    /\ UNCHANGED serverVars

\* the return after the loop
ResolveNotFound ==
    /\ resolver.pc = "eval"
    /\ resolver.gi > Len(resolver.activeGroupIDs)
    /\ result' = Returned(FALSE, "Not found", 0, resolver.user, <<>>)
    /\ resolver' = [ResolverIdle EXCEPT !.began = resolver.began]
    /\ UNCHANGED <<cfg, now, heap, trie, regexRules, fileRuleCache, trieMu, mu,
                   reload, loaders, query, preSnap>>
    /\ UNCHANGED serverVars

Next ==
    \/ ReloadRules
    \/ \E l \in DOMAIN loaders : LoaderCheckCache(l)
    \/ \E l \in DOMAIN loaders : LoaderLoadFromPath(l)
    \/ \E l \in DOMAIN loaders : LoaderLockCache(l)
    \/ \E l \in DOMAIN loaders : LoaderUpdateCache(l)
    \/ \E l \in DOMAIN loaders : LoaderLoadFromURL(l)
    \/ \E l \in DOMAIN loaders : LoaderLock(l)
    \/ \E l \in DOMAIN loaders : LoaderInsert(l)
    \/ \E l \in DOMAIN loaders : LoaderUnlock(l)
    \/ ReloadSwapLock
    \/ ReloadSwapTrie
    \/ ReloadSwapRegex
    \/ ReloadSwapUnlock
    \/ ResolveBegin
    \/ ResolveRLock
    \/ ResolveSearchTrie
    \/ ResolveScanRegex
    \/ ResolveRUnlock
    \/ ResolveGroup
    \/ ResolveNotFound

Spec == Init /\ [][Next]_vars

\* what a client sees of a result
Decision(r) ==
    [Blocked |-> r.Blocked, Reason |-> r.Reason, DNSRewrite |-> r.DNSRewrite]

\* the last Resolve began before or during the reload that has just
\* returned, and has returned itself
OverlapsLastReload ==
    /\ reload.pc = "idle"
    /\ resolver.pc = "idle"
    /\ result.called
    /\ reload.done = resolver.began + 1

\* C1: a Resolve that ran beside one ReloadRules returns the decision of
\* the index before that reload (the rule objects as they were when it
\* started) or of the index after it
C1_PreOrPostDecision ==
    OverlapsLastReload =>
        Decision(result) \in
            { Decision(Resolve(cfg, preSnap.heap, preSnap.trie,
                               preSnap.regexRules, now, query)),
              Decision(Resolve(cfg, heap, trie, regexRules, now, query)) }

\* C2: a Resolve reads its trie and its regex list from one swap; what it
\* reads was published by a swap that has ended; the published index
\* changes only between the Lock and the Unlock of the swap
C2_SingleSwap ==
    /\ resolver.pc = "runlock" => resolver.trieVer = resolver.regexVer
    /\ resolver.pc \in {"regex", "runlock"} =>
           /\ resolver.trieVer <= reload.done
           /\ resolver.trieVer # reload.newTrie.ver
    /\ reload.pc \in {"idle", "loading", "locked"} =>
           /\ trie.ver = reload.done
           /\ regexRules.ver = reload.done

\* a Resolve has read both parts of the published index while the
\* goroutines of a reload fill the next one
C2_Witness ==
    /\ resolver.pc = "runlock"
    /\ reload.pc = "loading"
    /\ \E l \in DOMAIN loaders : loaders[l].pc = "insert" /\ loaders[l].i > 1
    /\ resolver.trieVer = reload.done
    /\ resolver.regexVer = reload.done
    /\ resolver.allMatches # <<>>

----------------------------------------------------------------------------
(* Resolve on the rules of one group: which rule a slot keeps, rewrites *)

MaxSlotRules == 2

RewriteValues == {<<>>, <<"10.0.0.5">>, <<"10.0.1.7">>}

\* rules on c, on a.c and a regex, all candidates for the name a.c
SlotRuleShapes ==
    {Rule("r", pattern_type[1], pattern_type[2], isWhitelist,
          [NoModifiers EXCEPT !.Important = important,
                              !.DNSRewrite = rewrite]) :
        pattern_type \in {<< <<"c">>, RuleTypeDistinguish >>,
                          << <<"a", ".", "c">>, RuleTypeDistinguish >>,
                          << <<"^", "a", "\\.">>, RuleTypeRegex >>},
        isWhitelist \in BOOLEAN, important \in BOOLEAN,
        rewrite \in RewriteValues}

InitSlots ==
    \E n \in 1..MaxSlotRules :
      \E shapes \in [1..n -> SlotRuleShapes] :
          InitServing(OneGroupConfig, Noon,
              [i \in 1..n |-> Stamped(shapes[i], 1)],
              Anyone(<<"a", ".", "c", ".">>))

SpecSlots == InitSlots /\ [][ResolveCall]_vars

\* the place of rule i in the enumeration of the candidates: the trie
\* rules from the TLD toward the leaf, in the order of insertion on one
\* node, then the regex rules in the order of the list
EnumeratedBefore(i, j) ==
    LET regex(k) == heap[k].Type = RuleTypeRegex
        depth(k) == Len(Split(heap[k].Pattern, "."))
    IN  \/ ~regex(i) /\ regex(j)
        \/ ~regex(i) /\ ~regex(j) /\ depth(i) < depth(j)
        \/ regex(i) = regex(j)
           /\ (regex(i) \/ depth(i) = depth(j))
           /\ i < j

\* the rules of the slot of rule i: every rule here applies to the query
SameSlot(i) ==
    {j \in DOMAIN heap :
        /\ heap[j].IsWhitelist = heap[i].IsWhitelist
        /\ heap[j].Modifiers.Important = heap[i].Modifiers.Important}

\* C19: the rule reported for the deciding slot is the first rule of that
\* slot in the enumeration of the candidates
C19_FirstSeenKept ==
    (result.called /\ result.Rule # 0) =>
        \A j \in SameSlot(result.Rule) :
            j # result.Rule => EnumeratedBefore(result.Rule, j)

\* C20: an important block rule with dns_rewrite that decides gives a
\* blocked result carrying that rewrite
C20_ImportantRewrite ==
    (/\ result.called
     /\ result.Rule # 0
     /\ ~heap[result.Rule].IsWhitelist
     /\ heap[result.Rule].Modifiers.Important
     /\ heap[result.Rule].Modifiers.DNSRewrite # <<>>)
    => /\ result.Blocked
       /\ result.DNSRewrite = heap[result.Rule].Modifiers.DNSRewrite

\* the rule objects an index holds
IndexRules(t, rx) ==
    UNION {SeqToSet(t.nodes[path]) : path \in DOMAIN t.nodes}
        \cup SeqToSet(rx.rules)

\* the rule texts of the file or URL of a source
SourceTexts(src) ==
    {Files(IF src.Path # "" THEN src.Path ELSE src.URL)[k].Text :
        k \in DOMAIN Files(IF src.Path # "" THEN src.Path ELSE src.URL)}

\* C16: when the swap has assigned the new index, it holds the rule
\* objects of exactly the sources that loaded, all of them; no rule of a
\* failed source is in it under the group of that source; with every
\* source failed it is empty
C16_FailedSourceSkipped ==
    reload.pc = "regex" =>
        /\ trie = reload.newTrie
        /\ regexRules = reload.newRegexRules
        /\ IndexRules(trie, regexRules) =
               UNION {SeqToSet(loaders[l].rules) :
                         l \in {k \in DOMAIN loaders : ~loaders[k].err}}
        /\ \A l \in DOMAIN loaders :
               IF loaders[l].err
               THEN \A rid \in IndexRules(trie, regexRules) :
                        ~(/\ heap[rid].GroupID = loaders[l].gid
                          /\ heap[rid].Text \in SourceTexts(loaders[l].src))
               ELSE loaders[l].rules # <<>>

\* one source failed, another one loaded, and the swap has taken place
C16_Witness ==
    /\ reload.pc = "regex"
    /\ trie.ver = reload.done + 1
    /\ \E l \in DOMAIN loaders : loaders[l].err
    /\ \E l \in DOMAIN loaders :
          /\ ~loaders[l].err
          /\ SeqToSet(loaders[l].rules) \subseteq IndexRules(trie, regexRules)
          /\ loaders[l].rules # <<>>

----------------------------------------------------------------------------
(* parser: ParseRule.  A line is a sequence of atoms: "@@", "||", "^",   *)
(* "$", "/", " ", ",", "=", "!", "#", "*", ".", an address, a modifier   *)
(* key, or a letter.  The field IP of a rule is never read and left out. *)

\* strings.LastIndex for a one-atom separator, 0 when absent
LastIndex(s, sep) ==
    IF \A i \in 1..Len(s) : s[i] # sep THEN 0
    ELSE CHOOSE i \in 1..Len(s) :
             s[i] = sep /\ \A j \in (i + 1)..Len(s) : s[j] # sep

\* strings.Index for a one-atom separator, 0 when absent
Index(s, sep) ==
    IF \A i \in 1..Len(s) : s[i] # sep THEN 0
    ELSE CHOOSE i \in 1..Len(s) :
             s[i] = sep /\ \A j \in 1..(i - 1) : s[j] # sep

RECURSIVE NonEmpty(_)
NonEmpty(ss) ==
    IF ss = <<>> THEN <<>>
    ELSE (IF Head(ss) = <<>> THEN <<>> ELSE <<Head(ss)>>) \o NonEmpty(Tail(ss))

\* strings.Fields
Fields(s) == NonEmpty(Split(s, " "))

\* one part of the modifier list: key and value around the first "="
SetModifier(m, p) ==
    LET i   == Index(p, "=")
        key == TrimSpace(IF i = 0 THEN p ELSE SubSeq(p, 1, i - 1))
        val == IF i = 0 THEN <<>> ELSE SubSeq(p, i + 1, Len(p))
    IN  CASE key = <<"client">>     -> [m EXCEPT !.Client = Append(@, val)]
          [] key = <<"denyallow">>  -> [m EXCEPT !.DenyAllow = Append(@, val)]
          [] key = <<"dnstype">>    -> [m EXCEPT !.DNSType = Append(@, val)]
          [] key = <<"dnsrewrite">> -> [m EXCEPT !.DNSRewrite = val]
          [] key = <<"important">>  -> [m EXCEPT !.Important = TRUE]
          [] key = <<"badfilter">>  -> [m EXCEPT !.BadFilter = TRUE]
          [] OTHER -> m

RECURSIVE SetModifiers(_, _)
SetModifiers(m, parts) ==
    IF parts = <<>> THEN m
    ELSE SetModifiers(SetModifier(m, Head(parts)), Tail(parts))

parseModifiers(raw) == SetModifiers(NoModifiers, Split(raw, ","))

\* regexp.QuoteMeta followed by the replacement of \* by .*, on patterns
\* of letters, "." and "*"
WildcardToRegex(pattern) ==
    [k \in 1..Len(pattern) |->
        CASE pattern[k] = "*" -> ".*"
          [] pattern[k] = "." -> "\\."
          [] OTHER -> pattern[k]]

\* the slice text[1 : len(text)-1] of the line "/" is out of range
Panic == [panic |-> TRUE]

\* step 3 of ParseRule: type, pattern and the modifiers, which a hosts
\* line with a rewriting address changes
TypeOf(text, modifiers) ==
    IF HasPrefix(text, <<"/">>) /\ HasSuffix(text, <<"/">>)
    THEN [Type |-> RuleTypeRegex, Pattern |-> SubSeq(text, 2, Len(text) - 1),
          Modifiers |-> modifiers]
    ELSE IF HasPrefix(text, <<"||">>) /\ HasSuffix(text, <<"^">>)
    THEN [Type |-> RuleTypeDistinguish,
          Pattern |-> SubSeq(text, 2, Len(text) - 1), Modifiers |-> modifiers]
    ELSE IF HasPrefix(text, <<"||">>)
    THEN [Type |-> RuleTypeDistinguish, Pattern |-> Tail(text),
          Modifiers |-> modifiers]
    ELSE LET parts == Fields(text)
         IN  IF Len(parts) >= 2 /\ ParseAddr(parts[1]) # NoAddr
             THEN [Type |-> RuleTypeExact, Pattern |-> parts[2],
                   Modifiers |->
                       IF /\ ~IsLoopback(ParseAddr(parts[1]))
                          /\ ~IsUnspecified(ParseAddr(parts[1]))
                       THEN [modifiers EXCEPT
                                !.DNSRewrite = AddrString(ParseAddr(parts[1]))]
                       ELSE modifiers]
             ELSE [Type |-> RuleTypeExact, Pattern |-> text,
                   Modifiers |-> modifiers]

\* step 4 of ParseRule, after the trailing "^" is cut
Wildcards(typed) ==
    LET pattern == TrimSuffix(typed.Pattern, <<"^">>)
    IN  IF typed.Type # RuleTypeRegex /\ Index(pattern, "*") # 0
        THEN [typed EXCEPT
                 !.Type = RuleTypeRegex,
                 !.Pattern =
                     IF typed.Type = RuleTypeDistinguish
                     THEN <<"(^|\\.)">> \o WildcardToRegex(pattern) \o <<"$">>
                     ELSE <<"^">> \o WildcardToRegex(pattern) \o <<"$">>]
        ELSE [typed EXCEPT !.Pattern = pattern]

\* ParseRule: the rule of a line, Nil for an empty line or a comment
ParseRule(line) ==
    LET trimmed == TrimSpace(line)
        isWhitelist == HasPrefix(trimmed, <<"@@">>)
        body == IF isWhitelist THEN Tail(trimmed) ELSE trimmed
        idx == LastIndex(body, "$")
        modifiers == IF idx # 0
                     THEN parseModifiers(SubSeq(body, idx + 1, Len(body)))
                     ELSE NoModifiers
        text == IF idx # 0 THEN SubSeq(body, 1, idx - 1) ELSE body
        typed == Wildcards(TypeOf(text, modifiers))
    IN  IF \/ trimmed = <<>>
           \/ HasPrefix(trimmed, <<"!">>)
           \/ HasPrefix(trimmed, <<"#">>)
        THEN Nil
        ELSE IF text = <<"/">> THEN Panic
        ELSE Rule(trimmed, typed.Pattern, typed.Type, isWhitelist,
                  typed.Modifiers)

----------------------------------------------------------------------------
(* server/cache.go: TTLCache over the message objects *)

\* the address of a new object
New(h) ==
    CHOOSE ref \in 1..(Cardinality(DOMAIN h) + 1) :
        ref \notin DOMAIN h /\ \A r \in 1..(ref - 1) : r \in DOMAIN h

CopyShared(h, ref) == [h |-> h, ref |-> ref]

\* dns.Msg.Copy: a new object with the same contents
Copy(h, ref) == [h |-> (New(h) :> h[ref]) @@ h, ref |-> New(h)]

\* TTLCache.Set at time t: the items and the objects after it
Set(items, h, key, ref, ttl, t) ==
    LET cachedMsg == Copy(h, ref)
    IN  [items |-> (key :> [Msg |-> cachedMsg.ref, ExpiresAt |-> t + ttl])
                       @@ items,
         h |-> cachedMsg.h]

GetIgnoringExpiry(items, h, key, t) ==
    IF key \notin DOMAIN items THEN [h |-> h, ref |-> 0]
    ELSE Copy(h, items[key].Msg)

\* TTLCache.Get at time t: the message returned (0 for nil) and the objects
Get(items, h, key, t) ==
    IF key \notin DOMAIN items THEN [h |-> h, ref |-> 0]
    ELSE IF t > items[key].ExpiresAt THEN [h |-> h, ref |-> 0]
    ELSE Copy(h, items[key].Msg)

\* TTLCache.cleanup at time t
cleanup(items, t) ==
    [key \in {k \in DOMAIN items : ~(t > items[k].ExpiresAt)} |-> items[key]]

\* the objects something still points to: the garbage collector frees the rest
Collect(h, ugc, upc, refs) ==
    [ref \in DOMAIN h \cap ({ugc[k].Msg : k \in DOMAIN ugc}
                            \cup {upc[k].Msg : k \in DOMAIN upc} \cup refs)
        |-> h[ref]]

----------------------------------------------------------------------------
(* server/dns.go: the messages handleRequest builds *)

minTTL == 20
maxTTL == 1800
RewriteTTL == 20
BlockTTL == 60
DecisionTTL == 20

\* the number %d prints for a question type
QtypeNumber(qType) ==
    CASE qType = "A"     -> "1"
      [] qType = "CNAME" -> "5"
      [] qType = "TXT"   -> "16"
      [] qType = "AAAA"  -> "28"

Question(name, qType) == [Name |-> name, Qtype |-> qType]

Request(id, q) == [Id |-> id, Question |-> q]

\* dns.NewRR of "name ttl IN type data"
NewRR(name, ttl, type, data) ==
    [Name |-> name, Ttl |-> ttl, Rrtype |-> type, Data |-> data]

\* m.SetReply(r), m.Authoritative = true
SetReply(r) ==
    [Id |-> r.Id, Rcode |-> "NOERROR", Question |-> r.Question,
     Authoritative |-> TRUE, RecursionAvailable |-> FALSE,
     Answer |-> <<>>, Ns |-> <<>>, Extra |-> <<>>]

\* dns.HandleFailed
HandleFailed(r) ==
    [SetReply(r) EXCEPT !.Rcode = "SERVFAIL", !.Authoritative = FALSE]

\* what dns.Exchange returns when the upstream answers with these sections
Exchange(r, sections) ==
    [Id |-> r.Id, Rcode |-> sections.Rcode, Question |-> r.Question,
     Authoritative |-> FALSE, RecursionAvailable |-> TRUE,
     Answer |-> sections.Answer, Ns |-> sections.Ns, Extra |-> sections.Extra]

RewriteAnswerAlwaysCNAME(q, rewriteDest) ==
    IF /\ ParseAddr(rewriteDest) # NoAddr
       /\ \/ q.Qtype = "A" /\ Is4(ParseAddr(rewriteDest))
          \/ q.Qtype = "AAAA" /\ Is6(ParseAddr(rewriteDest))
    THEN <<NewRR(q.Name, RewriteTTL, q.Qtype,
                 AddrString(ParseAddr(rewriteDest)))>>
    ELSE <<NewRR(q.Name, RewriteTTL, "CNAME", rewriteDest \o <<".">>)>>

RewriteAnswerAnyFamily(q, rewriteDest) ==
    IF ParseAddr(rewriteDest) # NoAddr
    THEN IF q.Qtype \in {"A", "AAAA"}
         THEN <<NewRR(q.Name, RewriteTTL, q.Qtype,
                      AddrString(ParseAddr(rewriteDest)))>>
         ELSE <<>>
    ELSE IF q.Qtype \in {"CNAME", "A", "AAAA"}
    THEN <<NewRR(q.Name, RewriteTTL, "CNAME", rewriteDest \o <<".">>)>>
    ELSE <<>>

\* the answer section of a rewrite
RewriteAnswer(q, rewriteDest) ==
    LET destIP == ParseAddr(rewriteDest)
    IN  IF destIP # NoAddr
        THEN IF q.Qtype = "A" /\ Is4(destIP)
             THEN <<NewRR(q.Name, RewriteTTL, "A", AddrString(destIP))>>
             ELSE IF q.Qtype = "AAAA" /\ Is6(destIP)
             THEN <<NewRR(q.Name, RewriteTTL, "AAAA", AddrString(destIP))>>
             ELSE <<>>
        ELSE IF q.Qtype \in {"CNAME", "A", "AAAA"}
        THEN <<NewRR(q.Name, RewriteTTL, "CNAME", rewriteDest \o <<".">>)>>
        ELSE <<>>

\* the answer section of a plain block
BlockAnswer(q) ==
    CASE q.Qtype = "A"    -> <<NewRR(q.Name, BlockTTL, "A", <<"0.0.0.0">>)>>
      [] q.Qtype = "AAAA" -> <<NewRR(q.Name, BlockTTL, "AAAA", <<"::">>)>>
      [] OTHER            -> <<>>

\* the response to a blocked query
BlockResponse(r, res) ==
    [SetReply(r) EXCEPT
        !.RecursionAvailable = TRUE,
        !.Answer = IF res.DNSRewrite # <<>>
                   THEN RewriteAnswer(r.Question, res.DNSRewrite)
                   ELSE BlockAnswer(r.Question)]

\* checkSection: the smallest TTL seen so far
RECURSIVE checkSection(_, _)
checkSection(section, recordTTL) ==
    IF section = <<>> THEN recordTTL
    ELSE checkSection(Tail(section),
             IF Head(section).Ttl < recordTTL THEN Head(section).Ttl
             ELSE recordTTL)

finalTTLUnclamped(resp) ==
    checkSection(resp.Extra, checkSection(resp.Ns,
        checkSection(resp.Answer, maxTTL)))

\* the seconds an upstream response is cached for
finalTTL(resp) ==
    LET foundRecord == Len(resp.Answer) + Len(resp.Ns) + Len(resp.Extra) > 0
        recordTTL == IF foundRecord
                     THEN checkSection(resp.Extra, checkSection(resp.Ns,
                              checkSection(resp.Answer, maxTTL)))
                     ELSE minTTL
    IN  IF recordTTL < minTTL THEN minTTL
        ELSE IF recordTTL > maxTTL THEN maxTTL
        ELSE recordTTL

\* getUserGroupName: the label of the decision cache
getUserGroupName(u) ==
    IF u # Nil THEN <<u.Name, " (", u.UserGroup, ")">> ELSE <<"Default">>

\* "%s:%d:%s"
ugKeyOf(userGroupName, q) ==
    userGroupName \o <<":", QtypeNumber(q.Qtype), ":">> \o q.Name

\* "%d:%s"
upstreamKeyOf(q) == <<QtypeNumber(q.Qtype), ":">> \o q.Name

----------------------------------------------------------------------------
(* server/dns.go: handleRequest for a request with one question *)

\* what one branch of the handler does: the message it writes (the object
\* ref of h) and the caches it leaves
Outcome(from, h, ref, userGroupCache, upstreamCache) ==
    [from |-> from, h |-> h, ref |-> ref, UserGroupCache |-> userGroupCache,
     UpstreamCache |-> upstreamCache]

\* a hit in either cache: the copy gets the Id of the request
Hit(from, r, cached, ugc, upc) ==
    Outcome(from, [cached.h EXCEPT ![cached.ref].Id = r.Id], cached.ref,
            ugc, upc)

\* res.Blocked: the response is built, cached for 20 s and written
Block(r, res, ugKey, h, ugc, upc, t) ==
    LET m == New(h)
        stored == Set(ugc, (m :> BlockResponse(r, res)) @@ h, ugKey, m,
                      DecisionTTL, t)
    IN  Outcome("engine", stored.h, m, stored.items, upc)

FailedCached(r, upstreamKey, h, ugc, upc, t) ==
    LET m == New(h)
        kept == Set(upc, (m :> HandleFailed(r)) @@ h, upstreamKey, m, minTTL, t)
    IN  Outcome("failed", kept.h, m, ugc, kept.items)

\* dns.Exchange returned an error
Failed(r, upstreamKey, h, ugc, upc, t) ==
    Outcome("failed", (New(h) :> HandleFailed(r)) @@ h, New(h), ugc, upc)

ForwardCachingDecision(r, upstream, ugKey, upstreamKey, h, ugc, upc, t) ==
    LET m == New(h)
        resp == Exchange(r, upstream)
        kept == Set(upc, (m :> resp) @@ h, upstreamKey, m, finalTTL(resp), t)
        both == Set(ugc, kept.h, ugKey, m, DecisionTTL, t)
    IN  Outcome("upstream", both.h, m, both.items, kept.items)

\* dns.Exchange returned resp: it is cached for its TTL and written
Forward(r, upstream, ugKey, upstreamKey, h, ugc, upc, t) ==
    LET m == New(h)
        resp == Exchange(r, upstream)
        kept == Set(upc, (m :> resp) @@ h, upstreamKey, m, finalTTL(resp), t)
    IN  Outcome("upstream", kept.h, m, ugc, kept.items)

\* w.WriteMsg, and the state the handler leaves behind when it returns
Answered(out) ==
    /\ written' = [n |-> written.n + 1, from |-> out.from,
                   msg |-> out.h[out.ref], at |-> clock]
    /\ UserGroupCache' = out.UserGroupCache
    /\ UpstreamCache' = out.UpstreamCache
    /\ msgs' = Collect(out.h, out.UserGroupCache, out.UpstreamCache, held)
    /\ UNCHANGED <<clock, held>>

\* the handler with steps 4 and 5 exchanged: the upstream cache is looked
\* up before the engine is asked
handleRequestUpstreamCacheFirst(r, ip, mac, upstream) ==
    LET q == r.Question
        user == Match(NewUserMatcher(cfg), ip, mac)
        ugKey == ugKeyOf(getUserGroupName(user), q)
        groupHit == Get(UserGroupCache, msgs, ugKey, clock)
        asked == [qName |-> q.Name, qType |-> q.Qtype, ip |-> ip, mac |-> mac]
        res == Resolve(cfg, heap, trie, regexRules, now, asked)
        upstreamKey == upstreamKeyOf(q)
        upstreamHit == Get(UpstreamCache, msgs, upstreamKey, clock)
    IN  /\ reload.pc = "idle"
        /\ resolver.pc = "idle"
        /\ query' = asked
        /\ IF groupHit.ref # 0
           THEN /\ result' = NoResult
                /\ Answered(Hit("group-cache", r, groupHit, UserGroupCache,
                                UpstreamCache))
           ELSE IF upstreamHit.ref # 0
           THEN /\ result' = NoResult
                /\ Answered(Hit("upstream-cache", r, upstreamHit,
                                UserGroupCache, UpstreamCache))
           ELSE /\ result' = res
                /\ IF res.Blocked
                   THEN Answered(Block(r, res, ugKey, msgs, UserGroupCache,
                                       UpstreamCache, clock))
                   ELSE IF upstream.err
                   THEN Answered(Failed(r, upstreamKey, msgs, UserGroupCache,
                                        UpstreamCache, clock))
                   ELSE Answered(Forward(r, upstream, ugKey, upstreamKey, msgs,
                                         UserGroupCache, UpstreamCache, clock))
        /\ UNCHANGED <<cfg, now, heap, trie, regexRules, fileRuleCache, trieMu,
                       mu, reload, loaders, resolver, preSnap>>

\* the request r of the client (ip, mac); upstream is what the upstream
\* would do with it: fail, or answer with the sections it names
handleRequest(r, ip, mac, upstream) ==
    LET q == r.Question
        user == Match(NewUserMatcher(cfg), ip, mac)
        ugKey == ugKeyOf(getUserGroupName(user), q)
        groupHit == Get(UserGroupCache, msgs, ugKey, clock)
        asked == [qName |-> q.Name, qType |-> q.Qtype, ip |-> ip, mac |-> mac]
        res == Resolve(cfg, heap, trie, regexRules, now, asked)
        upstreamKey == upstreamKeyOf(q)
        upstreamHit == Get(UpstreamCache, msgs, upstreamKey, clock)
    IN  /\ reload.pc = "idle"
        /\ resolver.pc = "idle"
        /\ query' = asked
        /\ IF groupHit.ref # 0
           THEN /\ result' = NoResult
                /\ Answered(Hit("group-cache", r, groupHit, UserGroupCache,
                                UpstreamCache))
           ELSE /\ result' = res
                /\ IF res.Blocked
                   THEN Answered(Block(r, res, ugKey, msgs, UserGroupCache,
                                       UpstreamCache, clock))
                   ELSE IF upstreamHit.ref # 0
                   THEN Answered(Hit("upstream-cache", r, upstreamHit,
                                     UserGroupCache, UpstreamCache))
                   ELSE IF upstream.err
                   THEN Answered(Failed(r, upstreamKey, msgs, UserGroupCache,
                                        UpstreamCache, clock))
                   ELSE Answered(Forward(r, upstream, ugKey, upstreamKey, msgs,
                                         UserGroupCache, UpstreamCache, clock))
        /\ UNCHANGED <<cfg, now, heap, trie, regexRules, fileRuleCache, trieMu,
                       mu, reload, loaders, resolver, preSnap>>

\* the cleanupLoop goroutines of the two caches
CleanupUserGroupCache ==
    /\ UserGroupCache' = cleanup(UserGroupCache, clock)
    /\ UserGroupCache' # UserGroupCache
    /\ msgs' = Collect(msgs, UserGroupCache', UpstreamCache, held)
    /\ UNCHANGED <<cfg, now, heap, trie, regexRules, fileRuleCache, trieMu, mu,
                   reload, loaders, query, resolver, result, preSnap>>
    /\ UNCHANGED <<clock, UpstreamCache, held, written>>

CleanupUpstreamCache ==
    /\ UpstreamCache' = cleanup(UpstreamCache, clock)
    /\ UpstreamCache' # UpstreamCache
    /\ msgs' = Collect(msgs, UserGroupCache, UpstreamCache', held)
    /\ UNCHANGED <<cfg, now, heap, trie, regexRules, fileRuleCache, trieMu, mu,
                   reload, loaders, query, resolver, result, preSnap>>
    /\ UNCHANGED <<clock, UserGroupCache, held, written>>

----------------------------------------------------------------------------
(* the server between reloads: one rule group whose source is rewritten  *)
(* on disk between the reloads                                           *)

MaxRequests == 2
MaxServerReloads == 2

\* the scanner loop of LoadFromPath: the rules of the lines, nil skipped
RECURSIVE LoadLines(_)
LoadLines(lines) ==
    IF lines = <<>> THEN <<>>
    ELSE IF ParseRule(Head(lines)) = Nil THEN LoadLines(Tail(lines))
    ELSE <<ParseRule(Head(lines))>> \o LoadLines(Tail(lines))

\* what the rule file may hold when a reload reads it
ServerFiles ==
    { << <<"10.0.1.7", " ", "a", ".", "c">> >>,
      << <<"#", " ", "a", ".", "c">> >> }

ServerConfig ==
    Config(<<URLGroup("g1")>>, <<Policy("g1", "")>>,
           << [Name |-> "alice", IPs |-> <<"10.0.0.5">>, MACs |-> <<>>,
               UserGroup |-> "default"] >>, <<>>)

ServerNames == { <<"a", ".", "c", ".">>, <<"b", ".", "c", ".">> }
ServerTypes == {"A", "TXT"}
ServerClients == {"10.0.0.5", "192.168.1.5"}

\* the upstream fails, or answers with one record, or with none
Upstreams(q) ==
    { [err |-> TRUE, Rcode |-> "", Answer |-> <<>>, Ns |-> <<>>,
       Extra |-> <<>>],
      [err |-> FALSE, Rcode |-> "NOERROR",
       Answer |-> <<NewRR(q.Name, 30, q.Qtype, <<"up">>)>>, Ns |-> <<>>,
       Extra |-> <<>>],
      [err |-> FALSE, Rcode |-> "NXDOMAIN", Answer |-> <<>>, Ns |-> <<>>,
       Extra |-> <<>>] }

\* the instants the model looks at the clock
Instants == {0, 20, 21}

\* the rule objects a reload builds from the lines of the file
Loaded(lines) ==
    [i \in 1..Len(LoadLines(lines)) |-> Stamped(LoadLines(lines)[i], 1)]

InitServer ==
    \E lines \in ServerFiles :
        InitServing(ServerConfig, Noon, Loaded(lines),
                    Anyone(<<"a", ".", "c", ".">>))

\* a client sends a request
Serve ==
    \E name \in ServerNames, qType \in ServerTypes, ip \in ServerClients :
      \E upstream \in Upstreams(Question(name, qType)) :
        /\ written.n < MaxRequests
        /\ handleRequest(Request(written.n + 1, Question(name, qType)),
                         ip, "", upstream)

\* time passes
Tick ==
    /\ \E t \in Instants : t > clock /\ clock' = t
    /\ UNCHANGED <<cfg, now, heap, trie, regexRules, fileRuleCache, trieMu, mu,
                   reload, loaders, query, resolver, result, preSnap>>
    /\ UNCHANGED <<UserGroupCache, UpstreamCache, msgs, held, written>>

ReloadRulesFlushing ==
    \E lines \in ServerFiles :
        /\ reload.pc = "idle"
        /\ reload.done < MaxServerReloads
        /\ heap' = Loaded(lines)
        /\ trie' = LoadAll(NewIndex(reload.done + 1), heap', 1).trie
        /\ regexRules' = LoadAll(NewIndex(reload.done + 1), heap', 1).regexRules
        /\ reload' = ReloadIdle(reload.done + 1)
        /\ UserGroupCache' = <<>>
        /\ UpstreamCache' = <<>>
        /\ msgs' = <<>>
        /\ UNCHANGED <<cfg, now, fileRuleCache, trieMu, mu, loaders, query,
                       resolver, result, preSnap>>
        /\ UNCHANGED <<clock, held, written>>

\* ReloadRules from its first line to its return, with no Resolve between
ReloadRulesCall ==
    \E lines \in ServerFiles :
        /\ reload.pc = "idle"
        /\ reload.done < MaxServerReloads
        /\ heap' = Loaded(lines)
        /\ trie' = LoadAll(NewIndex(reload.done + 1), heap', 1).trie
        /\ regexRules' = LoadAll(NewIndex(reload.done + 1), heap', 1).regexRules
        /\ reload' = ReloadIdle(reload.done + 1)
        /\ UNCHANGED <<cfg, now, fileRuleCache, trieMu, mu, loaders, query,
                       resolver, result, preSnap>>
        /\ UNCHANGED serverVars

NextServer ==
    \/ Serve
    \/ Tick
    \/ ReloadRulesCall
    \/ CleanupUserGroupCache
    \/ CleanupUpstreamCache

SpecServer == InitServer /\ [][NextServer]_vars

----------------------------------------------------------------------------
(* the decision cache and the engine's verdict *)

\* an entry of the cache c2 that c1 does not hold as it is
Touched(c1, c2) ==
    \E k \in DOMAIN c2 : k \notin DOMAIN c1 \/ c2[k] # c1[k]

\* the keys of the request last handled
LastUgKey ==
    ugKeyOf(getUserGroupName(Match(NewUserMatcher(cfg), query.ip, query.mac)),
            Question(query.qName, query.qType))

LastUpstreamKey == upstreamKeyOf(Question(query.qName, query.qType))

\* C14: a step adds or changes an entry of the decision cache only when it
\* is a request for which the engine was asked and returned a blocked
\* result, and the entry is the one of that request's key; a request the
\* engine allows leaves the decision cache as it was.
C14_DecisionCacheOnlyOnBlock ==
    [][/\ Touched(UserGroupCache, UserGroupCache') =>
             /\ written'.n = written.n + 1
             /\ result' = Resolve(cfg, heap, trie, regexRules, now, query')
             /\ result'.Blocked
             /\ \A k \in DOMAIN UserGroupCache' :
                    k # LastUgKey' => /\ k \in DOMAIN UserGroupCache
                                      /\ UserGroupCache'[k] = UserGroupCache[k]
       /\ (written'.n = written.n + 1 /\ result'.called /\ ~result'.Blocked) =>
             UserGroupCache' = UserGroupCache]_vars

\* an allowed request went to the upstream while the decision cache held
\* an entry of an earlier blocked one
C14_Witness ==
    /\ written.from = "upstream"
    /\ result.called /\ ~result.Blocked
    /\ UserGroupCache # <<>>

\* C15: after a failed exchange the client has a SERVFAIL response and
\* neither cache holds an entry for the request's keys that was stored at
\* that moment, so the same request asks the upstream again.
C15_FailureNotCached ==
    [][(written'.n = written.n + 1 /\ written'.from = "failed") =>
          /\ written'.msg.Rcode = "SERVFAIL"
          /\ written'.msg.Id = written'.n
          /\ written'.msg.Answer = <<>>
          /\ UserGroupCache' = UserGroupCache
          /\ UpstreamCache' = UpstreamCache
          /\ Get(UpstreamCache', msgs', LastUpstreamKey', clock').ref = 0
          /\ Get(UserGroupCache', msgs', LastUgKey', clock').ref = 0]_vars

\* the same request failed twice in a row: the second one reached the
\* upstream again
C15_Witness ==
    /\ written.n = 2
    /\ written.from = "failed"
    /\ written.msg.Rcode = "SERVFAIL"
    /\ UpstreamCache = <<>>

----------------------------------------------------------------------------
(* the caches across a reload *)

\* what Get(key) hands out at time t: the message, Nil for none
Cached(items, h, key, t) ==
    IF Get(items, h, key, t).ref = 0 THEN Nil
    ELSE Get(items, h, key, t).h[Get(items, h, key, t).ref]

\* C13: a reload leaves both caches as they are, entries and messages; and
\* a request whose decision-cache entry has not expired is answered with
\* that entry under the request's Id without the engine being asked, so
\* also after a reload whose index decides the query differently.
C13_CachesSurviveReload ==
    [][/\ reload'.done # reload.done =>
             /\ UserGroupCache' = UserGroupCache
             /\ UpstreamCache' = UpstreamCache
             /\ \A k \in DOMAIN UserGroupCache :
                    Cached(UserGroupCache', msgs', k, clock')
                        = Cached(UserGroupCache, msgs, k, clock)
             /\ \A k \in DOMAIN UpstreamCache :
                    Cached(UpstreamCache', msgs', k, clock')
                        = Cached(UpstreamCache, msgs, k, clock)
       /\ (/\ written'.n = written.n + 1
           /\ Cached(UserGroupCache, msgs, LastUgKey', clock) # Nil) =>
             /\ written'.from = "group-cache"
             /\ written'.msg =
                    [Cached(UserGroupCache, msgs, LastUgKey', clock)
                        EXCEPT !.Id = written'.n]
             /\ result' = NoResult]_vars

\* a rewrite cached before the reload is served after it, while the index
\* now published allows the query
C13_Witness ==
    /\ reload.done = 2
    /\ written.from = "group-cache"
    /\ written.msg.Answer # <<>>
    /\ ~Resolve(cfg, heap, trie, regexRules, now, query).Blocked

----------------------------------------------------------------------------
(* the time the caches keep a response: one name, any upstream response *)

\* the TTLs the records of an upstream response carry
RecordTTLs == {0, 19, 20, 21, 1800, 1801, 2147483647}

\* the TTLs of its authority and additional records
SideTTLs == {19, 21}

\* the sections of up to n records with these TTLs
Sections(name, n, ttls) ==
    UNION {[1..k -> {NewRR(name, ttl, "A", <<"up">>) : ttl \in ttls}] :
              k \in 0..n}

\* the rule files of the answers: two hosts lines, a zero-address line, a
\* rewrite to a name, a comment
AnswerFiles ==
    { << <<"10.0.1.7", " ", "a", ".", "c">> >>,
      << <<"2001:DB8::1", " ", "a", ".", "c">> >>,
      << <<"0.0.0.0", " ", "a", ".", "c">> >>,
      << <<"||", "a", ".", "c", "^", "$", "dnsrewrite", "=", "b", ".", "c">> >>,
      << <<"#", " ", "a", ".", "c">> >> }

InitTTL ==
    \E lines \in AnswerFiles :
        InitServing(ServerConfig, Noon, Loaded(lines),
                    Anyone(<<"a", ".", "c", ".">>))

ServeTTL ==
    /\ written.n < MaxRequests
    /\ \E answer \in Sections(<<"a", ".", "c", ".">>, 2, RecordTTLs),
          ns \in Sections(<<"c", ".">>, 1, SideTTLs),
          extra \in Sections(<<"c", ".">>, 1, SideTTLs) :
          handleRequest(Request(written.n + 1,
                                Question(<<"a", ".", "c", ".">>, "A")),
                        "192.168.1.5", "",
                        [err |-> FALSE, Rcode |-> "NOERROR", Answer |-> answer,
                         Ns |-> ns, Extra |-> extra])

SpecTTL == InitTTL /\ [][ServeTTL]_vars

\* the TTLs of all records of a message
TTLsOf(msg) ==
    {msg.Answer[i].Ttl : i \in 1..Len(msg.Answer)}
        \cup {msg.Ns[i].Ttl : i \in 1..Len(msg.Ns)}
        \cup {msg.Extra[i].Ttl : i \in 1..Len(msg.Extra)}

Least(S) == CHOOSE x \in S : \A y \in S : x <= y

\* C12: the entry of an upstream response expires after the least TTL of
\* its records, raised to 20 and lowered to 1800 seconds, and after 20
\* seconds when it has no record; the entry of a block or rewrite response
\* expires after exactly 20 seconds.
C12_CacheTTL ==
    /\ written.from = "upstream" =>
          /\ LastUpstreamKey \in DOMAIN UpstreamCache
          /\ LET ttl == UpstreamCache[LastUpstreamKey].ExpiresAt - written.at
                 S == TTLsOf(written.msg)
             IN  /\ ttl >= 20 /\ ttl <= 1800
                 /\ S = {} => ttl = 20
                 /\ (S # {} /\ Least(S) < 20) => ttl = 20
                 /\ (S # {} /\ Least(S) > 1800) => ttl = 1800
                 /\ (S # {} /\ Least(S) >= 20 /\ Least(S) <= 1800) =>
                        ttl = Least(S)
    /\ written.from = "engine" =>
          /\ LastUgKey \in DOMAIN UserGroupCache
          /\ UserGroupCache[LastUgKey].ExpiresAt - written.at = 20

\* an upstream response whose least TTL is taken from the authority
\* section and lies inside the range
C12_Witness ==
    /\ written.from = "upstream"
    /\ Len(written.msg.Answer) = 2
    /\ written.msg.Answer[1].Ttl = 1801
    /\ written.msg.Answer[2].Ttl = 2147483647
    /\ written.msg.Ns # <<>>
    /\ written.msg.Ns[1].Ttl = 21
    /\ UpstreamCache[LastUpstreamKey].ExpiresAt = clock + 21

C12_WitnessBlock ==
    /\ written.from = "engine"
    /\ written.msg.Answer # <<>>
    /\ written.msg.Answer[1].Ttl = 60
    /\ UserGroupCache[LastUgKey].ExpiresAt = clock + 20

----------------------------------------------------------------------------
(* the answers to one name under each rule file *)

AnswerTypes == {"A", "AAAA", "CNAME", "TXT"}

InitAnswer ==
    \E lines \in AnswerFiles :
        InitServing(ServerConfig, Noon, Loaded(lines),
                    Anyone(<<"a", ".", "c", ".">>))

ServeAnswer ==
    \E qType \in AnswerTypes, ip \in ServerClients :
      \E upstream \in Upstreams(Question(<<"a", ".", "c", ".">>, qType)) :
        /\ written.n < MaxRequests
        /\ handleRequest(Request(written.n + 1,
                                 Question(<<"a", ".", "c", ".">>, qType)),
                         ip, "", upstream)

SpecAnswer == InitAnswer /\ [][ServeAnswer]_vars

\* the addresses a hosts line blocks with instead of rewriting to
ZeroOrLoopback == {"0.0.0.0", "::", "127.0.0.1", "::1"}

\* rule i was written as the hosts line "IP domain" and the request last
\* handled asks for that domain
HostsRuleAsked(i) ==
    /\ written.n > 0
    /\ Len(Fields(heap[i].Text)) = 2
    /\ ParseAddr(Fields(heap[i].Text)[1]) # NoAddr
    /\ ParseAddr(Fields(heap[i].Text)[1]) \notin ZeroOrLoopback
    /\ query.qName = Fields(heap[i].Text)[2] \o <<".">>

\* C11: for a hosts line with a routable address, Resolve of the domain
\* returns a rewrite to the address in its canonical form; an A query for
\* an IPv4 address and an AAAA query for an IPv6 address are answered with
\* one record holding it, and no answer holds the zero address.
C11_HostsRewrite ==
    \A i \in 1..Len(heap) :
        HostsRuleAsked(i) =>
            LET ip == ParseAddr(Fields(heap[i].Text)[1])
            IN  /\ result.called =>
                      /\ result.Blocked
                      /\ result.Reason = "Rewrite"
                      /\ result.DNSRewrite = <<ip>>
                /\ (query.qType = "A" /\ Is4(ip)) =>
                      written.msg.Answer =
                          <<NewRR(query.qName, 20, "A", <<ip>>)>>
                /\ (query.qType = "AAAA" /\ Is6(ip)) =>
                      written.msg.Answer =
                          <<NewRR(query.qName, 20, "AAAA", <<ip>>)>>
                /\ \A k \in 1..Len(written.msg.Answer) :
                      written.msg.Answer[k].Data \notin {<<"0.0.0.0">>, <<"::">>}

\* an AAAA query for the domain of a hosts line with an IPv6 address
\* written in capitals, answered by the engine
C11_Witness ==
    /\ Len(heap) = 1
    /\ HostsRuleAsked(1)
    /\ Fields(heap[1].Text)[1] = <<"2001:DB8::1">>
    /\ query.qType = "AAAA"
    /\ written.from = "engine"
    /\ written.msg.Answer = <<NewRR(query.qName, 20, "AAAA", <<"2001:db8::1">>)>>

----------------------------------------------------------------------------
(* the answer section of a rewrite *)

\* the request last handled was decided by the engine as a rewrite
Rewritten == written.from = "engine" /\ result.Reason = "Rewrite"

SameFamily(dest, qType) ==
    /\ ParseAddr(dest) # NoAddr
    /\ \/ qType = "A" /\ Is4(ParseAddr(dest))
       \/ qType = "AAAA" /\ Is6(ParseAddr(dest))

\* C17 as stated: an A or AAAA record when the destination is an IP of the
\* family of the query type, a CNAME record with TTL 20 in every other case.
C17_Original ==
    Rewritten =>
        IF SameFamily(result.DNSRewrite, query.qType)
        THEN written.msg.Answer =
                 <<NewRR(query.qName, 20, query.qType,
                         AddrString(ParseAddr(result.DNSRewrite)))>>
        ELSE written.msg.Answer =
                 <<NewRR(query.qName, 20, "CNAME",
                         result.DNSRewrite \o <<".">>)>>

\* C17: an A or AAAA record with TTL 20 when the destination is an IP of
\* the family of the query type; a CNAME record with TTL 20 when the
\* destination is not an IP and the query type is A, AAAA or CNAME; no
\* answer record otherwise.
C17_RewriteAnswer ==
    Rewritten =>
        IF SameFamily(result.DNSRewrite, query.qType)
        THEN written.msg.Answer =
                 <<NewRR(query.qName, 20, query.qType,
                         AddrString(ParseAddr(result.DNSRewrite)))>>
        ELSE IF /\ ParseAddr(result.DNSRewrite) = NoAddr
                /\ query.qType \in {"A", "AAAA", "CNAME"}
        THEN written.msg.Answer =
                 <<NewRR(query.qName, 20, "CNAME",
                         result.DNSRewrite \o <<".">>)>>
        ELSE written.msg.Answer = <<>>

\* an A query rewritten to an IPv6 address: no answer record
C17_Witness ==
    /\ Rewritten
    /\ query.qType = "A"
    /\ Is6(ParseAddr(result.DNSRewrite))
    /\ written.msg.Rcode = "NOERROR"
    /\ written.msg.Answer = <<>>

\* an AAAA query rewritten to a name: a CNAME record
C17_WitnessCNAME ==
    /\ Rewritten
    /\ query.qType = "AAAA"
    /\ written.msg.Answer =
           <<NewRR(query.qName, 20, "CNAME", <<"b", ".", "c", ".">>)>>

----------------------------------------------------------------------------
(* server/cache.go: one TTLCache and a caller that keeps its messages *)

MaxHeld == 2

CacheKeys == {ugKeyOf(<<"Default">>, Question(name, "A")) : name \in ServerNames}

MsgIds == {1, 2}

InitCache ==
    InitServing(ServerConfig, Noon, <<>>, Anyone(<<"a", ".", "c", ".">>))

\* the caller builds a message, with the first Id
CallerNew ==
    /\ Cardinality(held) < MaxHeld
    /\ msgs' = (New(msgs) :>
                   SetReply(Request(1, Question(<<"a", ".", "c", ".">>, "A"))))
                   @@ msgs
    /\ held' = held \cup {New(msgs)}
    /\ UNCHANGED <<cfg, now, heap, trie, regexRules, fileRuleCache, trieMu, mu,
                   reload, loaders, query, resolver, result, preSnap>>
    /\ UNCHANGED <<clock, UserGroupCache, UpstreamCache, written>>

\* the caller passes one of its messages to Set
CacheSet ==
    \E key \in CacheKeys, ref \in held :
        LET set == Set(UserGroupCache, msgs, key, ref, DecisionTTL, clock)
        IN  /\ UserGroupCache' = set.items
            /\ msgs' = Collect(set.h, set.items, UpstreamCache, held)
            /\ UNCHANGED <<cfg, now, heap, trie, regexRules, fileRuleCache,
                           trieMu, mu, reload, loaders, query, resolver, result,
                           preSnap>>
            /\ UNCHANGED <<clock, UpstreamCache, held, written>>

\* the caller calls Get and keeps the message it returns
CacheGet ==
    \E key \in CacheKeys :
        LET got == Get(UserGroupCache, msgs, key, clock)
        IN  /\ Cardinality(held) < MaxHeld
            /\ got.ref # 0
            /\ msgs' = got.h
            /\ held' = held \cup {got.ref}
            /\ UNCHANGED <<cfg, now, heap, trie, regexRules, fileRuleCache,
                           trieMu, mu, reload, loaders, query, resolver, result,
                           preSnap>>
            /\ UNCHANGED <<clock, UserGroupCache, UpstreamCache, written>>

\* the caller overwrites the Id of a message it holds
CallerChange ==
    \E ref \in held, id \in MsgIds :
        /\ msgs[ref].Id # id
        /\ msgs' = [msgs EXCEPT ![ref].Id = id]
        /\ UNCHANGED <<cfg, now, heap, trie, regexRules, fileRuleCache, trieMu,
                       mu, reload, loaders, query, resolver, result, preSnap>>
        /\ UNCHANGED <<clock, UserGroupCache, UpstreamCache, held, written>>

\* the caller returns and lets go of a message
CallerDrop ==
    \E ref \in held :
        /\ held' = held \ {ref}
        /\ msgs' = Collect(msgs, UserGroupCache, UpstreamCache, held')
        /\ UNCHANGED <<cfg, now, heap, trie, regexRules, fileRuleCache, trieMu,
                       mu, reload, loaders, query, resolver, result, preSnap>>
        /\ UNCHANGED <<clock, UserGroupCache, UpstreamCache, written>>

NextCache ==
    \/ CallerNew
    \/ CacheSet
    \/ CacheGet
    \/ CallerChange
    \/ CallerDrop
    \/ Tick
    \/ CleanupUserGroupCache

SpecCache == InitCache /\ [][NextCache]_vars

\* C18: the message the cache holds for a key changes only when Set
\* replaces the entry of that key, and then it is equal to a message the
\* caller held at that moment; no change the caller makes to a message it
\* passed to Set or got from Get changes what Get returns, and Get returns
\* an object the caller did not hold and the cache does not hold.
C18_CopiesInsulate ==
    [][/\ \A k \in DOMAIN UserGroupCache' :
              IF k \in DOMAIN UserGroupCache /\ UserGroupCache'[k] = UserGroupCache[k]
              THEN /\ msgs'[UserGroupCache'[k].Msg] = msgs[UserGroupCache[k].Msg]
                   /\ Cached(UserGroupCache', msgs', k, clock)
                          = Cached(UserGroupCache, msgs, k, clock)
              ELSE \E ref \in held : msgs'[UserGroupCache'[k].Msg] = msgs[ref]
       /\ \A k \in DOMAIN UserGroupCache' : UserGroupCache'[k].Msg \notin held'
       /\ \A k1, k2 \in DOMAIN UserGroupCache' :
              k1 # k2 => UserGroupCache'[k1].Msg # UserGroupCache'[k2].Msg]_vars

\* the caller holds two messages whose Id it has changed, one it passed to
\* Set and one it got from Get, and the cache still holds the Id stored
C18_Witness ==
    /\ Cardinality(held) = 2
    /\ \E k \in DOMAIN UserGroupCache :
          /\ msgs[UserGroupCache[k].Msg].Id = 1
          /\ \A ref \in held : msgs[ref].Id = 2
          /\ Cached(UserGroupCache, msgs, k, clock) # Nil

----------------------------------------------------------------------------
(* ReloadRules: the rule objects of the published index *)

\* the goroutines of the reload in progress whose source loaded
LoadedSources == {l \in DOMAIN loaders : ~loaders[l].err}

\* C21: when the swap has published the new index, it holds, for every
\* source that loaded, a rule object for each rule of the source that
\* carries the id of the group of that source.
C21_GroupStamp ==
    reload.pc = "regex" =>
        \A l \in LoadedSources :
            \A text \in SourceTexts(loaders[l].src) :
                \E rid \in IndexRules(trie, regexRules) :
                    /\ heap[rid].Text = text
                    /\ heap[rid].GroupID = loaders[l].gid

\* C22: a step that leaves the published index in place changes no field of
\* a rule object reachable from it.
C22_PublishedRulesFrozen ==
    [][(trie' = trie /\ regexRules' = regexRules) =>
          \A rid \in IndexRules(trie, regexRules) : heap'[rid] = heap[rid]]_vars

----------------------------------------------------------------------------
(* ReloadRules: the write lock on the index *)

SwapSteps == {"locked", "trie", "regex"}

\* the goroutines between Lock and Unlock around the store in fileRuleCache
Storing == {l \in DOMAIN loaders : loaders[l].pc = "store"}

\* C26 as stated: the write lock is held only in the steps of the swap.
C26_Original == trieMu.writer => reload.pc \in SwapSteps

\* C26: the write lock is held either by ReloadRules in the steps of the
\* swap, after every goroutine has ended, or by one goroutine that stores
\* the rules it has parsed from a path in the rule-file cache; no goroutine
\* holds it while it loads or parses a source or inserts rules, and it is
\* free in every other step.
C26_WriteLockSteps ==
    /\ trieMu.writer <=> (reload.pc \in SwapSteps \/ Storing # {})
    /\ Cardinality(Storing) <= 1
    /\ reload.pc \in SwapSteps =>
           \A l \in DOMAIN loaders : loaders[l].pc = "done"
    /\ \A l \in Storing :
           /\ loaders[l].src.Path # ""
           /\ loaders[l].rules # <<>>
           /\ loaders[l].i = 0

\* a goroutine holds the write lock for its store while another inserts
C26_Witness ==
    /\ trieMu.writer
    /\ reload.pc = "loading"
    /\ Storing # {}
    /\ \E l \in DOMAIN loaders : loaders[l].pc = "insert"

----------------------------------------------------------------------------
(* Resolve, steps 2 and 3: the user-group and its active rule groups *)

MaxPolicies == 3

\* a policy names a configured group, with no schedule, with one that holds
\* now or with one that does not, or a group that is not configured
PolicyChoices ==
    { Policy("g1", ""), Policy("g1", "on"), Policy("g1", "off"),
      Policy("g2", ""), Policy("g2", "on"), Policy("gx", "") }

PolicySchedules ==
    << [Name |-> "on",
        Items |-> <<[Days |-> <<"Mon">>, Ranges |-> <<RangeText(0, 0, 1, 0)>>]>>],
       [Name |-> "off",
        Items |-> <<[Days |-> <<"Sun">>, Ranges |-> <<RangeText(0, 0, 1, 0)>>]>>] >>

\* two user groups; alice is in the group userGroup, which may be empty or
\* not configured; defaultGroup is defaults.user_group
PolicyConfig(policies, userGroup, defaultGroup) ==
    [RuleGroups |-> <<URLGroup("g1"), URLGroup("g2")>>,
     UserGroups |-> <<[Name |-> "default", Policies |-> policies],
                      [Name |-> "kids", Policies |-> <<Policy("g2", "")>>]>>,
     Users      |-> <<[Name |-> "alice", IPs |-> <<"10.0.0.5">>, MACs |-> <<>>,
                       UserGroup |-> userGroup]>>,
     Schedules  |-> PolicySchedules,
     Defaults   |-> [UserGroup |-> defaultGroup]]

\* every group blocks a.c
InitPolicy ==
    \E n \in 1..MaxPolicies :
      \E policies \in [1..n -> PolicyChoices],
         userGroup \in {"kids", "", "ghost"},
         defaultGroup \in {"default", "ghost"},
         ip \in {"10.0.0.5", "192.168.1.5"} :
          InitServing(PolicyConfig(policies, userGroup, defaultGroup), Noon,
              <<Stamped(Rule("||a.c^", <<"a", ".", "c">>, RuleTypeDistinguish,
                             FALSE, NoModifiers), 1),
                Stamped(Rule("||a.c^", <<"a", ".", "c">>, RuleTypeDistinguish,
                             FALSE, NoModifiers), 2)>>,
              [qName |-> <<"a", ".", "c", ".">>, qType |-> "A", ip |-> ip,
               mac |-> ""])

SpecPolicy == InitPolicy /\ [][ResolveCall]_vars

\* the policies of the user-group of this name, none when it is unknown
PoliciesOf(name) ==
    IF \E i \in 1..Len(cfg.UserGroups) : cfg.UserGroups[i].Name = name
    THEN cfg.UserGroups[CHOOSE i \in 1..Len(cfg.UserGroups) :
             /\ cfg.UserGroups[i].Name = name
             /\ \A j \in 1..(i - 1) : cfg.UserGroups[j].Name # name].Policies
    ELSE <<>>

\* the policies of the list that count: not suppressed by their schedule
\* now, and naming a configured rule group
Counting(policies) ==
    {i \in 1..Len(policies) :
        /\ ~IsActive(NewScheduleMatcher(cfg), policies[i].Schedule, now)
        /\ \E g \in 1..Len(cfg.RuleGroups) :
               cfg.RuleGroups[g].Name = policies[i].RuleGroup}

\* the first counting policy that names the rule group with this id
FirstNaming(policies, gid) ==
    CHOOSE i \in Counting(policies) :
        /\ cfg.RuleGroups[gid].Name = policies[i].RuleGroup
        /\ \A j \in Counting(policies) :
               cfg.RuleGroups[gid].Name = policies[j].RuleGroup => i <= j

UserGroupNames == {"default", "kids", "", "ghost"}

\* C23: for every user-group name the active list holds the ids of the
\* configured rule groups named by a policy that is not suppressed, each
\* once, in the order of the first such policy; an unknown name gives the
\* empty list; and with an empty list Resolve returns not blocked, "No
\* active rules", with no rule, whatever the index holds.
C23_ActiveGroupList ==
    /\ \A name \in UserGroupNames :
          LET L == getActiveGroupIDs(cfg, name, now)
              P == PoliciesOf(name)
          IN  /\ {L[k] : k \in 1..Len(L)} =
                     {g \in 1..Len(cfg.RuleGroups) :
                         \E i \in Counting(P) :
                             cfg.RuleGroups[g].Name = P[i].RuleGroup}
              /\ \A k1, k2 \in 1..Len(L) :
                     k1 < k2 => /\ L[k1] # L[k2]
                                /\ FirstNaming(P, L[k1]) < FirstNaming(P, L[k2])
    /\ result.called =>
          LET L == getActiveGroupIDs(cfg, UserGroupName(cfg, result.User), now)
          IN  IF L = <<>>
              THEN result = Returned(FALSE, "No active rules", 0, result.User,
                                     <<>>)
              ELSE result.Blocked /\ heap[result.Rule].GroupID = L[1]

\* g1 is named first by a suppressed policy and again after g2; an
\* unconfigured group is named in between: the list is g2, g1
C23_Witness ==
    /\ result.called
    /\ query.ip = "192.168.1.5"
    /\ cfg.Defaults.UserGroup = "default"
    /\ cfg.UserGroups[1].Policies =
           <<Policy("g1", "on"), Policy("g2", ""), Policy("g1", "off")>>
    /\ getActiveGroupIDs(cfg, "default", now) = <<2, 1>>
    /\ result.Blocked
    /\ heap[result.Rule].GroupID = 2

\* the user-group the policies are to be taken from: the group of the
\* matched user when it has one, the default group otherwise
ExpectedUserGroup(user) ==
    IF user # Nil /\ user.UserGroup # "" THEN user.UserGroup
    ELSE cfg.Defaults.UserGroup

\* C25: the result of Resolve is the one the policies of the expected
\* user-group give.
C25_UserGroupOrDefault ==
    result.called =>
        LET ids == getActiveGroupIDs(cfg, ExpectedUserGroup(result.User), now)
        IN  result =
                IF Len(ids) = 0
                THEN Returned(FALSE, "No active rules", 0, result.User, <<>>)
                ELSE Evaluate(heap, ids,
                              AllMatches(heap, trie, regexRules, query.qName),
                              result.User, query)

----------------------------------------------------------------------------
(* UserMatcher.Match: the users of the configuration and the client *)

MaxUsers == 2

\* the ips and macs of a user as the configuration writes them
UserIPLists ==
    { <<>>, <<"10.0.0.5">>, <<"10.0.0.0/24">>, <<"10.0.0.0/16">>,
      <<"10.0.0.0/16", "10.0.0.0/24">>, <<"10.0.0.0/24", "10.0.1.7">> }

UserMACLists == { <<>>, <<"m1">>, <<"m2">> }

UserNames == <<"u1", "u2", "u3", "u4">>

InitUser ==
    \E n \in 1..MaxUsers :
      \E ips \in [1..n -> UserIPLists], macs \in [1..n -> UserMACLists],
         ip \in {"10.0.0.5", "10.0.1.7", "192.168.1.5"},
         mac \in {"", "m1", "m2"} :
          InitServing(
              Config(<<URLGroup("g1")>>, <<Policy("g1", "")>>,
                     [i \in 1..n |-> [Name |-> UserNames[i], IPs |-> ips[i],
                                      MACs |-> macs[i], UserGroup |-> "default"]],
                     <<>>),
              Noon,
              <<Stamped(Rule("||a.c^", <<"a", ".", "c">>, RuleTypeDistinguish,
                             FALSE, NoModifiers), 1)>>,
              [qName |-> <<"a", ".", "c", ".">>, qType |-> "A", ip |-> ip,
               mac |-> mac])

SpecUser == InitUser /\ [][ResolveCall]_vars

\* the users configured with the MAC, with the exact IP, with a CIDR
\* that contains the IP
WithMAC(mac) ==
    {i \in 1..Len(cfg.Users) :
        \E k \in 1..Len(cfg.Users[i].MACs) : cfg.Users[i].MACs[k] = mac}

WithIP(ip) ==
    {i \in 1..Len(cfg.Users) :
        \E k \in 1..Len(cfg.Users[i].IPs) :
            /\ ~ParsePrefix(<<cfg.Users[i].IPs[k]>>).ok
            /\ ParseAddr(<<cfg.Users[i].IPs[k]>>) = ip}

WithCIDR(ip) ==
    {i \in 1..Len(cfg.Users) :
        \E k \in 1..Len(cfg.Users[i].IPs) :
            /\ ParsePrefix(<<cfg.Users[i].IPs[k]>>).ok
            /\ ip \in ParsePrefix(<<cfg.Users[i].IPs[k]>>).addrs}

\* C24: the user Resolve works with is the one configured for the MAC when
\* the MAC is not empty and configured (the last one configured with it),
\* whatever the IP; else the one configured for the exact IP; else the user
\* of the first CIDR in the order of the configuration that contains the
\* IP; else none.
C24_MatchOrder ==
    result.called =>
        IF query.mac # "" /\ WithMAC(query.mac) # {}
        THEN result.User = cfg.Users[Last(WithMAC(query.mac))]
        ELSE IF WithIP(query.ip) # {}
        THEN result.User = cfg.Users[Last(WithIP(query.ip))]
        ELSE IF WithCIDR(query.ip) # {}
        THEN result.User =
                 cfg.Users[CHOOSE i \in WithCIDR(query.ip) :
                               \A j \in WithCIDR(query.ip) : i <= j]
        ELSE result.User = Nil

\* the MAC is the second user's, the exact IP is the first user's: the
\* second user is returned
C24_Witness ==
    /\ result.called
    /\ Len(cfg.Users) = 2
    /\ query.mac = "m1"
    /\ query.ip = "10.0.0.5"
    /\ cfg.Users[1].IPs = <<"10.0.0.5">>
    /\ cfg.Users[1].MACs = <<"m2">>
    /\ cfg.Users[2].MACs = <<"m1">>
    /\ result.User.Name = "u2"

----------------------------------------------------------------------------
(* ParseRule on the lines of a rule file: regex rules *)

MaxRegexLen == 3

\* the characters of a regex source
RegexAlphabet == {"a", "\\.", "^", "$", "*"}

\* the lines /R/ and @@/R/
RegexLines ==
    {prefix \o <<"/">> \o R \o <<"/">> :
        prefix \in {<<>>, <<"@@">>},
        R \in UNION {[1..n -> RegexAlphabet] : n \in 0..MaxRegexLen}}

InitParse ==
    InitServing(OneGroupConfig, Noon, <<>>, Anyone(<<"a", ".", "c", ".">>))

\* a reload that reads a file of one line; a panic in ParseRule ends the
\* process
ReloadLine ==
    \E line \in RegexLines :
        /\ reload.pc = "idle"
        /\ reload.done < MaxServerReloads
        /\ IF \E i \in 1..Len(LoadLines(<<line>>)) : LoadLines(<<line>>)[i] = Panic
           THEN /\ reload' = [reload EXCEPT !.pc = "panic"]
                /\ UNCHANGED <<heap, trie, regexRules>>
           ELSE /\ heap' = Loaded(<<line>>)
                /\ trie' = LoadAll(NewIndex(reload.done + 1), heap', 1).trie
                /\ regexRules' =
                       LoadAll(NewIndex(reload.done + 1), heap', 1).regexRules
                /\ reload' = ReloadIdle(reload.done + 1)
        /\ UNCHANGED <<cfg, now, fileRuleCache, trieMu, mu, loaders, query,
                       resolver, result, preSnap>>
        /\ UNCHANGED serverVars

SpecParse == InitParse /\ [][ReloadLine]_vars

\* the text between the slashes of a line /R/ or @@/R/
RegexSource(text) ==
    IF HasPrefix(text, <<"@@">>) THEN SubSeq(text, 3, Len(text) - 1)
    ELSE SubSeq(text, 2, Len(text) - 1)

\* C27: the reload of a file with the one line /R/ ends with one rule, of
\* kind Regex, whose pattern is R.
C27_RegexPattern ==
    /\ reload.pc # "panic"
    /\ reload.done = 2 =>
          /\ Len(heap) = 1
          /\ heap[1].Type = RuleTypeRegex
          /\ heap[1].Pattern = RegexSource(heap[1].Text)

----------------------------------------------------------------------------
(* the decision cache and the clients that share a label: one user with  *)
(* two devices, and two clients that match no user                       *)

SharedFiles ==
    { << <<"||", "a", ".", "c", "^", "$", "client", "=", "10.0.0.5">> >>,
      << <<"||", "a", ".", "c", "^", "$", "client", "=", "192.168.1.5">> >>,
      << <<"||", "a", ".", "c", "^", "$", "client", "=", "alice">> >>,
      << <<"||", "a", ".", "c", "^">> >> }

SharedConfig ==
    Config(<<URLGroup("g1")>>, <<Policy("g1", "")>>,
           << [Name |-> "alice", IPs |-> <<"10.0.0.5", "10.0.1.7">>,
               MACs |-> <<>>, UserGroup |-> "default"] >>, <<>>)

SharedClients == {"10.0.0.5", "10.0.1.7", "192.168.1.5", "2001:db8::1"}

InitShared ==
    \E lines \in SharedFiles :
        InitServing(SharedConfig, Noon, Loaded(lines),
                    Anyone(<<"a", ".", "c", ".">>))

ServeShared ==
    /\ written.n < MaxRequests
    /\ \E name \in ServerNames, ip \in SharedClients :
        \E upstream \in Upstreams(Question(name, "A")) :
            handleRequest(Request(written.n + 1, Question(name, "A")),
                          ip, "", upstream)

NextShared ==
    \/ ServeShared
    \/ Tick

SpecShared == InitShared /\ [][NextShared]_vars

\* the label under which the server files the decisions of a client
LabelOf(ip) == getUserGroupName(Match(NewUserMatcher(cfg), ip, ""))

DecisionFor(ip, qName) ==
    Resolve(cfg, heap, trie, regexRules, now,
            [qName |-> qName, qType |-> "A", ip |-> ip, mac |-> ""])

\* C28: two clients with the same label get the same blocked flag from
\* Resolve for every name, and a response the server takes from the
\* decision cache goes to a client whose request the engine blocks.
C28_SameKeySameDecision ==
    /\ \A ip1 \in SharedClients, ip2 \in SharedClients, name \in ServerNames :
          LabelOf(ip1) = LabelOf(ip2) =>
              DecisionFor(ip1, name).Blocked = DecisionFor(ip2, name).Blocked
    /\ written.from = "group-cache" =>
          DecisionFor(query.ip, query.qName).Blocked

\* a client the engine allows was answered with the block cached for
\* another client of its label
C28_CachedBlockServedToAllowed ==
    /\ written.from = "group-cache"
    /\ written.msg.Answer # <<>>
    /\ ~DecisionFor(query.ip, query.qName).Blocked

----------------------------------------------------------------------------
(* the name of a query written with and without the final dot *)

DotLines ==
    { <<"||", "a", ".", "c", "^">>,
      <<"a", ".", "c">>,
      <<"10.0.1.7", " ", "a", ".", "c">>,
      <<"@@", "||", "a", ".", "c", "^">>,
      <<"||", "*", ".", "c", "^">>,
      <<"a", ".", "*">>,
      <<"@@", "||", "a", ".", "*", "^">>,
      <<"/", "a", "\\.", "c", "/">>,
      <<"/", "^", "a", ".", "c", ".", "/">> }

\* query names without the final dot
BareNames ==
    { <<"a", ".", "c">>, <<"b", ".", "c">>, <<"b", ".", "a", ".", "c">>,
      <<"a", ".", "b">>, <<"c">> }

InitDot ==
    \E l1 \in DotLines, l2 \in DotLines, name \in BareNames,
       dot \in {<<>>, <<".">>} :
        InitServing(OneGroupConfig, Noon, Loaded(<<l1, l2>>),
                    Anyone(name \o dot))

SpecDot == InitDot /\ [][ResolveCall]_vars

Bare(qName) == TrimSuffix(qName, <<".">>)

\* C29: Resolve gives the same blocked flag and the same deciding rule for
\* a name and for that name followed by a dot.
C29_TrailingDotIrrelevant ==
    LET bare == Resolve(cfg, heap, trie, regexRules, now,
                        [query EXCEPT !.qName = Bare(query.qName)])
        fqdn == Resolve(cfg, heap, trie, regexRules, now,
                        [query EXCEPT !.qName = Bare(query.qName) \o <<".">>])
    IN  /\ bare.Blocked = fqdn.Blocked
        /\ bare.Rule = fqdn.Rule

\* the same, for indexes that hold no rule of kind Regex
C29_WithoutRegexRules ==
    regexRules = <<>> => C29_TrailingDotIrrelevant

----------------------------------------------------------------------------
(* the decision cache over time: Set, Get and the sweeper *)

\* the entry of key k is the one an earlier Set left: same expiry, same
\* message
EntryKept(k) ==
    /\ k \in DOMAIN UserGroupCache
    /\ UserGroupCache'[k].ExpiresAt = UserGroupCache[k].ExpiresAt
    /\ msgs'[UserGroupCache'[k].Msg] = msgs[UserGroupCache[k].Msg]

\* this step is the Set of a block decision under key k
EntrySet(k) ==
    /\ written'.n = written.n + 1
    /\ written'.from = "engine"
    /\ k = LastUgKey'
    /\ UserGroupCache'[k].ExpiresAt = clock + DecisionTTL
    /\ msgs'[UserGroupCache'[k].Msg] = written'.msg

\* C30: in every step, a response taken from the decision cache is the
\* entry of the request's key, read no later than its expiry; an entry's
\* expiry and message change only by the Set of a block decision, which
\* puts the expiry 20 seconds after the clock; and the sweeper removes only
\* entries past their expiry. So a block is served from the cache at most
\* 20 seconds after the most recent Set stored it, swept or not.
C30_ExpiredNeverServed ==
    [][/\ (written'.n = written.n + 1 /\ written'.from = "group-cache") =>
             /\ LastUgKey' \in DOMAIN UserGroupCache
             /\ clock <= UserGroupCache[LastUgKey'].ExpiresAt
             /\ written'.msg =
                    [msgs[UserGroupCache[LastUgKey'].Msg]
                        EXCEPT !.Id = written'.n]
       /\ \A k \in DOMAIN UserGroupCache' : EntryKept(k) \/ EntrySet(k)
       /\ \A k \in DOMAIN UserGroupCache \ DOMAIN UserGroupCache' :
             clock > UserGroupCache[k].ExpiresAt]_vars

\* the second request found the entry of its key expired and not yet swept,
\* and was not answered from the cache
C30_Witness ==
    /\ written.n = 2
    /\ written.at = clock
    /\ written.from = "upstream"
    /\ LastUgKey \in DOMAIN UserGroupCache
    /\ clock > UserGroupCache[LastUgKey].ExpiresAt

----------------------------------------------------------------------------
(* the order in which a request consults the caches, the engine and the  *)
(* upstream                                                              *)

InitOrder ==
    \E lines \in ServerFiles :
        InitServing(ServerConfig, Noon, Loaded(lines),
                    Anyone(<<"a", ".", "c", ".">>))

\* the one client asks for the one name
ServeOrder ==
    /\ written.n < MaxRequests
    /\ \E upstream \in Upstreams(Question(<<"a", ".", "c", ".">>, "A")) :
          handleRequest(Request(written.n + 1,
                                Question(<<"a", ".", "c", ".">>, "A")),
                        "192.168.1.5", "", upstream)

NextOrder ==
    \/ ServeOrder
    \/ Tick
    \/ ReloadRulesCall
    \/ CleanupUserGroupCache
    \/ CleanupUpstreamCache

SpecOrder == InitOrder /\ [][NextOrder]_vars

\* C31: a request with an unexpired entry in the decision cache is answered
\* from it and the engine is not asked; otherwise the engine is asked, and
\* a request it blocks is answered with the block it builds; otherwise an
\* unexpired entry of the upstream cache is the answer; otherwise the
\* request goes to the upstream. So a request the engine blocks at that
\* moment is never answered from the upstream cache or the upstream.
C31_ConsultOrder ==
    [][written'.n = written.n + 1 =>
          LET groupHit == Cached(UserGroupCache, msgs, LastUgKey', clock) # Nil
              blocked == Resolve(cfg, heap, trie, regexRules, now,
                                 query').Blocked
              upstreamHit ==
                  Cached(UpstreamCache, msgs, LastUpstreamKey', clock) # Nil
          IN  /\ groupHit => written'.from = "group-cache" /\ ~result'.called
              /\ ~groupHit => result'.called
              /\ (~groupHit /\ blocked) => written'.from = "engine"
              /\ (~groupHit /\ ~blocked /\ upstreamHit) =>
                     written'.from = "upstream-cache"
              /\ (~groupHit /\ ~blocked /\ ~upstreamHit) =>
                     written'.from \in {"upstream", "failed"}
              /\ blocked => written'.from \in {"group-cache", "engine"}]_vars

\* the engine blocked a request, and built the answer, while the upstream
\* cache held an unexpired answer for the same type and name
C31_Witness ==
    /\ written.from = "engine"
    /\ written.at = clock
    /\ result.Blocked
    /\ Cached(UpstreamCache, msgs, LastUpstreamKey, clock) # Nil

----------------------------------------------------------------------------
(* the result of Resolve as the server's block branch reads it *)

\* C32: a result with Blocked = true names a rule of the index, and a
\* result with a rewrite destination has Blocked = true.
C32_BlockedHasRule ==
    result.called =>
        /\ result.Blocked => result.Rule \in 1..Len(heap)
        /\ result.DNSRewrite # <<>> => result.Blocked

\* a rewrite was returned: the server's rewrite branch reads the pattern of
\* the rule
C32_Witness ==
    /\ result.called
    /\ result.Blocked
    /\ result.DNSRewrite # <<>>
    /\ heap[result.Rule].Modifiers.DNSRewrite = result.DNSRewrite

----------------------------------------------------------------------------
(* ReloadRules returns: the goroutines and the locks under a fair         *)
(* scheduler                                                              *)

\* two groups that share the file p1, and a group whose remote source holds
\* no rule; the remote source makes the updater call ReloadRules again
FairGroups ==
    <<[Name |-> "g1", Sources |-> <<Source("s1", "", "p1")>>],
      [Name |-> "g2", Sources |-> <<Source("s2", "", "p1")>>],
      [Name |-> "g3", Sources |-> <<Source("s3", "u2", "")>>]>>

InitFair ==
    /\ cfg = Config(FairGroups, <<Policy("g1", ""), Policy("g3", "")>>,
                    <<>>, <<>>)
    /\ now = Noon
    /\ heap = <<>>
    /\ trie = NewDomainTrie(0)
    /\ regexRules = [ver |-> 0, rules |-> <<>>]
    /\ fileRuleCache = <<>>
    /\ trieMu = TrieMuFree
    /\ mu = 0
    /\ reload = ReloadIdle(0)
    /\ loaders = <<>>
    /\ query = Anyone(<<"a", ".", "c", ".">>)
    /\ resolver = ResolverIdle
    /\ result = NoResult
    /\ preSnap = NoSnap
    /\ NewServer

\* one goroutine per source
LoaderIds == 1..Len(FairGroups)

\* the next step of goroutine l, whichever it is
LoaderStep(l) ==
    /\ l \in DOMAIN loaders
    /\ \/ LoaderCheckCache(l)
       \/ LoaderLoadFromPath(l)
       \/ LoaderLockCache(l)
       \/ LoaderUpdateCache(l)
       \/ LoaderLoadFromURL(l)
       \/ LoaderLock(l)
       \/ LoaderInsert(l)
       \/ LoaderUnlock(l)

\* the steps of ReloadRules after wg.Wait() and e.trieMu.Lock()
SwapStep == ReloadSwapTrie \/ ReloadSwapRegex \/ ReloadSwapUnlock

\* the steps of Resolve between e.trieMu.RLock() and e.trieMu.RUnlock()
ReaderStep == ResolveSearchTrie \/ ResolveScanRegex \/ ResolveRUnlock

\* The scheduler runs every goroutine that can run, and every load returns.
\* A goroutine blocked in Lock or RLock gets the lock if the lock is free
\* again and again: sync.RWMutex holds new readers back while a writer
\* waits, and sync.Mutex hands the lock to a starving waiter. Queries need
\* not arrive, but a Resolve that holds the read lock goes on to release it.
Fairness ==
    /\ \A l \in LoaderIds : SF_vars(LoaderStep(l))
    /\ SF_vars(ReloadSwapLock)
    /\ WF_vars(SwapStep)
    /\ WF_vars(ReaderStep)

FairSpec == InitFair /\ [][Next]_vars /\ Fairness

\* C33: every call of ReloadRules that has started its goroutines returns,
\* and whenever no call is in progress the index published is the one the
\* last call built: the call came to the swap before it returned.
C33_ReloadReturns ==
    /\ [](reload.pc = "idle" =>
              trie.ver = reload.done /\ regexRules.ver = reload.done)
    /\ (reload.pc = "loading") ~> (reload.pc = "idle")

\* a goroutine waits for the write lock of the index while a Resolve holds
\* the read lock, and another goroutine holds the build lock
C33_Witness ==
    /\ trieMu.readers > 0
    /\ \E l \in DOMAIN loaders : loaders[l].pc = "update"
    /\ \E l \in DOMAIN loaders : loaders[l].pc = "insert"

============================================================================
